---- MODULE Spec2Model ----
(***************************************************************************)
(* A model of neon's highlighting and layout engine: NeonHighlighter       *)
(* (src/neon/highlighting.py), RichFormatter (src/neon/formatter.py) and   *)
(* the group inheritance of NeonArgumentParser (src/neon/parser.py).       *)
(*                                                                         *)
(* Strings are sequences of characters, each a one-element string.  Offsets *)
(* into a text                                                             *)
(* are Python's: 0-based, a span (a, b) covers the characters a .. b-1,    *)
(* which are elements a+1 .. b of the sequence.                            *)
(***************************************************************************)
EXTENDS Integers, Sequences, FiniteSets, TLC

VARIABLES
    text,          \* the rich Text handed to highlight(): [plain, spans]
    pre,           \* the text as it was when the last highlight() call began
    mid,           \* the text of the last call after step 2, before step 3
    flagged,       \* backtick_replacements at the end of step 2 of the last call
    calls,         \* highlight() calls made on this text so far
    config,        \* the Config the highlighter and the formatter read
    custom_patterns, \* NeonHighlighter._custom_patterns, in insertion order
    compiled,      \* NeonHighlighter._compiled: [none, prog_parts]
    options,       \* NeonHighlighter._options: [none, index]
    parser,        \* the parser definition the highlighter is bound to
    calc_width,    \* RichFormatter._calculated_arg_column_width
    tables,        \* the width of the option/command column of every section
                   \* table of the last format_help(), in order
    usage,         \* what _build_usage_text() returned in the last format_help()
    header,        \* RichFormatter.header
    custom_sections, \* RichFormatter.custom_sections, in insertion order
    sections,      \* the sections of the last format_help() before they are
                   \* joined, in order: [kind, title, text]
    document       \* what the last format_help() returned

hlvars == <<text, pre, mid, flagged, calls, custom_patterns, compiled, options>>
fmtvars == <<calc_width, tables, usage, header, custom_sections, sections, document>>
vars == <<text, pre, mid, flagged, calls, config, custom_patterns, compiled,
          options, parser, calc_width, tables, usage, header, custom_sections,
          sections, document>>

----------------------------------------------------------------------------
(* Bounds of the model. *)

\* the longest text, in vocabulary tokens
MaxTokens == 3

\* highlight() calls made on one text
MaxCalls == 2

\* arguments a caller adds to one parser
MaxActions == 2

\* groups a caller adds to one parser
MaxGroups == 2

\* subcommands registered on one parser
MaxSubcommands == 1

----------------------------------------------------------------------------
(* Characters and the character classes of Python's re. *)

\* the backtick character (U+0060), which a TLA+ string cannot hold
BT == "BT"

LowerCase == {"a", "b", "c", "d", "e", "f", "h", "l", "p", "s", "v", "x", "z"}

UpperCase == {"A", "B", "C", "D", "E", "F", "H", "L", "M", "P", "S", "V", "X", "Z"}

Letters == LowerCase \cup UpperCase

Digits == {"1"}

\* [A-Za-z0-9]
IsAlnum(c) == c \in Letters \cup Digits

\* \w
IsWord(c) == IsAlnum(c) \/ c = "_"

\* \s
IsSpace(c) == c = " "

\* \d
IsDigit(c) == c \in Digits

\* s[a:b] for 0 <= a, b (Python clamps a slice to the string)
Slice(s, a, b) ==
    LET hi == IF b > Len(s) THEN Len(s) ELSE b
    IN IF a >= hi THEN <<>> ELSE SubSeq(s, a + 1, hi)

\* c is in the character class cls: "alnumdash" is [A-Za-z0-9-], "nonspace" is
\* \S, "digit" is \d, "notbt" is [^BT], "notrb" is [^\]], "notlb" is [^\[]
InClass(cls, c) ==
    CASE cls = "alnumdash" -> IsAlnum(c) \/ c = "-"
      [] cls = "nonspace" -> ~IsSpace(c)
      [] cls = "space" -> IsSpace(c)
      [] cls = "digit" -> IsDigit(c)
      [] cls = "notbt" -> c # BT
      [] cls = "notrb" -> c # "]"
      [] cls = "notlb" -> c # "["

\* The largest e in pos .. Len(s) such that every character of s[pos:e] is in
\* the class cls: where a greedy repetition of cls that starts at pos stops.
RECURSIVE RunEnd(_, _, _)
RunEnd(s, pos, cls) ==
    IF pos < Len(s) /\ InClass(cls, s[pos + 1]) THEN RunEnd(s, pos + 1, cls) ELSE pos

\* \b at offset i: exactly one of the characters around i is a word character
WordBoundary(s, i) ==
    LET before == i >= 1 /\ i <= Len(s) /\ IsWord(s[i])
        after == i >= 0 /\ i < Len(s) /\ IsWord(s[i + 1])
    IN before # after

\* the literal lit is at offset i of s
LiteralAt(s, i, lit) ==
    /\ i + Len(lit) <= Len(s)
    /\ \A k \in 1..Len(lit) : s[i + k] = lit[k]

\* match.span(name) of a group that did not take part in the match
NoSpan == <<-1, -1>>

\* str.split(): the whitespace-separated tokens of s
RECURSIVE SplitWS(_, _)
SplitWS(s, pos) ==
    IF pos >= Len(s) THEN <<>>
    ELSE IF IsSpace(s[pos + 1]) THEN SplitWS(s, pos + 1)
    ELSE LET e == RunEnd(s, pos, "nonspace")
         IN <<Slice(s, pos, e)>> \o SplitWS(s, e)

----------------------------------------------------------------------------
(* The compiled pattern of _build_regex and Python's finditer over it.      *)
(* A match is a record: last is match.lastgroup, start/end is match.span(), *)
(* and each named group holds its span, NoSpan when it took no part.        *)

NoMatch ==
    [last |-> "none", start |-> -1, end |-> -1, prog |-> NoSpan,
     command |-> NoSpan, backtick |-> NoSpan, bt_content |-> NoSpan,
     args |-> NoSpan, metavar |-> NoSpan, version |-> NoSpan]

\* \b<lit>\b at offset i
WordAt(s, i, lit) ==
    /\ WordBoundary(s, i)
    /\ LiteralAt(s, i, lit)
    /\ WordBoundary(s, i + Len(lit))

\* (?P<prog>\bP0\b)(?:\s+(?P<command>\bP1\b))? for a program name of two or more
\* tokens, (?P<prog>\bPROG\b) for a program name of one token; no alternative
\* at all when the parser has no program name.
ProgAlt(s, i, c) ==
    IF c.prog = <<>> THEN NoMatch
    ELSE IF Len(c.parts) > 1
    THEN LET e0 == i + Len(c.parts[1])
             ws == RunEnd(s, e0, "space")
             e1 == ws + Len(c.parts[2])
         IN IF ~WordAt(s, i, c.parts[1]) THEN NoMatch
            ELSE IF ws > e0 /\ WordAt(s, ws, c.parts[2])
            THEN [NoMatch EXCEPT !.last = "command", !.start = i, !.end = e1,
                                 !.prog = <<i, e0>>, !.command = <<ws, e1>>]
            ELSE [NoMatch EXCEPT !.last = "prog", !.start = i, !.end = e0,
                                 !.prog = <<i, e0>>]
    ELSE IF WordAt(s, i, c.prog)
    THEN [NoMatch EXCEPT !.last = "prog", !.start = i, !.end = i + Len(c.prog),
                         !.prog = <<i, i + Len(c.prog)>>]
    ELSE NoMatch

\* (?P<backtick>BT(?P<bt_content>[^BT]+)BT)
BacktickAlt(s, i) ==
    LET e == RunEnd(s, i + 1, "notbt")
    IN IF i < Len(s) /\ s[i + 1] = BT /\ e > i + 1 /\ e < Len(s)
       THEN [NoMatch EXCEPT !.last = "backtick", !.start = i, !.end = e + 1,
                            !.backtick = <<i, e + 1>>, !.bt_content = <<i + 1, e>>]
       ELSE NoMatch

\* Where _OPT_TOKEN, --?[A-Za-z0-9][A-Za-z0-9-]*, ends when matched at offset
\* i; -1 when it does not match there.  The greedy --? takes two dashes when
\* an alphanumeric follows them and one when an alphanumeric follows it.
OptTokenEnd(s, i) ==
    LET dash(k) == k < Len(s) /\ s[k + 1] = "-"
        alnum(k) == k < Len(s) /\ IsAlnum(s[k + 1])
    IN IF dash(i) /\ dash(i + 1) /\ alnum(i + 2) THEN RunEnd(s, i + 3, "alnumdash")
       ELSE IF dash(i) /\ alnum(i + 1) THEN RunEnd(s, i + 2, "alnumdash")
       ELSE -1

\* re.fullmatch(_OPT_TOKEN, content)
IsOptToken(content) == OptTokenEnd(content, 0) = Len(content)

\* (?P<args>_OPT_TOKEN), the option alternative without its metavar group
ArgsAltTokenOnly(s, i) ==
    LET e == OptTokenEnd(s, i)
    IN IF e = -1 THEN NoMatch
       ELSE [NoMatch EXCEPT !.last = "args", !.start = i, !.end = e,
                            !.args = <<i, e>>]

\* (?P<args>_OPT_TOKEN)(?:\s+(?P<metavar>\S+))?
ArgsAlt(s, i) ==
    LET e == OptTokenEnd(s, i)
        ws == RunEnd(s, e, "space")
        mv == RunEnd(s, ws, "nonspace")
    IN IF e = -1 THEN NoMatch
       ELSE IF ws > e /\ mv > ws
       THEN [NoMatch EXCEPT !.last = "metavar", !.start = i, !.end = mv,
                            !.args = <<i, e>>, !.metavar = <<ws, mv>>]
       ELSE [NoMatch EXCEPT !.last = "args", !.start = i, !.end = e,
                            !.args = <<i, e>>]

\* (?P<version>\bv?\d+\.\d+\.\d+\b)
VersionAlt(s, i) ==
    LET d0 == IF i < Len(s) /\ s[i + 1] = "v" THEN i + 1 ELSE i
        d1 == RunEnd(s, d0, "digit")
        d2 == RunEnd(s, d1 + 1, "digit")
        d3 == RunEnd(s, d2 + 1, "digit")
        dot(k) == k < Len(s) /\ s[k + 1] = "."
    IN IF /\ WordBoundary(s, i)
          /\ d1 > d0 /\ dot(d1)
          /\ d2 > d1 + 1 /\ dot(d2)
          /\ d3 > d2 + 1 /\ WordBoundary(s, d3)
       THEN [NoMatch EXCEPT !.last = "version", !.start = i, !.end = d3,
                            !.version = <<i, d3>>]
       ELSE NoMatch

\* The match of the compiled pattern that starts at offset i: the first
\* alternative, in the order _build_regex joins them, that matches there.
MatchAt(s, i, c) ==
    LET m1 == ProgAlt(s, i, c)
        m2 == BacktickAlt(s, i)
        m3 == ArgsAlt(s, i)
        m4 == VersionAlt(s, i)
    IN IF m1.last # "none" THEN m1
       ELSE IF m2.last # "none" THEN m2
       ELSE IF m3.last # "none" THEN m3
       ELSE m4

\* A scan that resumes after the option token of a match, not after the
\* token the match consumed with it.
RECURSIVE FindIterResumingAfterToken(_, _, _)
FindIterResumingAfterToken(s, pos, c) ==
    IF pos >= Len(s) THEN <<>>
    ELSE LET m == MatchAt(s, pos, c)
         IN IF m.last = "none" THEN FindIterResumingAfterToken(s, pos + 1, c)
            ELSE <<m>> \o FindIterResumingAfterToken(
                              s, IF m.args # NoSpan THEN m.args[2] ELSE m.end, c)

\* self._compiled.finditer(s): the non-overlapping matches, left to right
RECURSIVE FindIter(_, _, _)
FindIter(s, pos, c) ==
    IF pos >= Len(s) THEN <<>>
    ELSE LET m == MatchAt(s, pos, c)
         IN IF m.last = "none" THEN FindIter(s, pos + 1, c)
            ELSE <<m>> \o FindIter(s, m.end, c)

----------------------------------------------------------------------------
(* The parser definition: what argparse holds of a parser.                  *)
(*   parser = [prog, actions (_actions), groups (_action_groups), ...]      *)
(*   group  = [title, inherit, actions (_group_actions)]                    *)
(*   action = [id, option_strings, dest, metavar, help, kind, nargs,        *)
(*             required, default, choices, subs]                            *)
(* id stands for the identity of the action object; metavar <<>> is None;   *)
(* help and default are "None", "SUPPRESS" or a value; subs is the          *)
(* name -> parser map of a subparsers action, in insertion order.           *)

\* the elements of a sequence of sequences, in order
RECURSIVE Flatten(_)
Flatten(ss) == IF ss = <<>> THEN <<>> ELSE Head(ss) \o Flatten(Tail(ss))

\* the actions of every group of p, group after group
GroupActions(p) == Flatten([g \in 1..Len(p.groups) |-> p.groups[g].actions])

\* "Remove duplicates while preserving order": the first occurrence of every
\* action object
RECURSIVE UniqueById(_, _)
UniqueById(acts, seen) ==
    IF acts = <<>> THEN <<>>
    ELSE IF Head(acts).id \in seen THEN UniqueById(Tail(acts), seen)
    ELSE <<Head(acts)>> \o UniqueById(Tail(acts), seen \cup {Head(acts).id})

\* actions_from(p): every action of p once, each subparsers action followed by
\* the actions of its subcommand parsers
RECURSIVE ActionsFrom(_)
ActionsFrom(p) ==
    LET unique_actions == UniqueById(p.actions \o GroupActions(p), {})
        below(act) ==
            IF act.kind = "parsers"
            THEN Flatten([k \in 1..Len(act.subs) |-> ActionsFrom(act.subs[k].parser)])
            ELSE <<>>
    IN Flatten([k \in 1..Len(unique_actions) |->
                   <<unique_actions[k]>> \o below(unique_actions[k])])

\* NeonHighlighter._initialization_complete
InitializationComplete(p) == Len(GroupActions(p)) # 0

\* self._options[opt] = {"action": action}
SetItem(index, key, val) ==
    [k \in DOMAIN index \cup {key} |-> IF k = key THEN val ELSE index[k]]

RECURSIVE IndexOptionStrings(_, _, _)
IndexOptionStrings(index, act, k) ==
    IF k > Len(act.option_strings) THEN index
    ELSE IndexOptionStrings(SetItem(index, act.option_strings[k], act), act, k + 1)

RECURSIVE IndexActions(_, _)
IndexActions(index, acts) ==
    IF acts = <<>> THEN index
    ELSE IndexActions(IndexOptionStrings(index, Head(acts), 1), Tail(acts))

\* NeonHighlighter._collect_options: the new value of self._options
CollectOptions(p) ==
    [none |-> FALSE,
     index |-> IF InitializationComplete(p)
               THEN IndexActions(<<>>, ActionsFrom(p))
               ELSE <<>>]

\* _build_regex without the test of _initialization_complete
BuildRegexEager(p, old) ==
    [none |-> FALSE, prog |-> p.prog, parts |-> SplitWS(p.prog, 0)]

\* NeonHighlighter._build_regex: the new value of self._compiled
BuildRegex(p, old) ==
    IF ~InitializationComplete(p) THEN old
    ELSE [none |-> FALSE, prog |-> p.prog, parts |-> SplitWS(p.prog, 0)]

----------------------------------------------------------------------------
(* rich.text.Text: [plain, spans], spans in the order they were appended    *)
(* (Text._spans), each [start, end, style].                                 *)

\* str.replace(BT, ''): s without its backticks
StripBackticks(s) == SelectSeq(s, LAMBDA c : c # BT)

\* Text.stylize(style, start, end): an empty or out-of-range span is dropped,
\* the end is clamped to the length of the text
Stylize(t, style, start, end) ==
    LET length == Len(t.plain)
        a == IF start < 0 THEN length + start ELSE start
        b == IF end < 0 THEN length + end ELSE end
    IN IF a >= length \/ b <= a THEN t
       ELSE [t EXCEPT !.spans =
                Append(@, [start |-> a,
                           end |-> IF b < length THEN b ELSE length,
                           style |-> style])]

\* Text.append(segment, style): nothing for an empty segment; a span over the
\* appended characters when a style is given ("" is no style)
TextAppend(t, segment, style) ==
    IF Len(segment) = 0 THEN t
    ELSE [plain |-> t.plain \o segment,
          spans |-> IF style # ""
                    THEN Append(t.spans, [start |-> Len(t.plain),
                                          end |-> Len(t.plain) + Len(segment),
                                          style |-> style])
                    ELSE t.spans]

\* the offsets of the non-overlapping occurrences of lit in s from pos on, left
\* to right: re.finditer of a pattern that is a literal
RECURSIVE LiteralMatches(_, _, _)
LiteralMatches(s, pos, lit) ==
    IF pos + Len(lit) > Len(s) THEN <<>>
    ELSE IF LiteralAt(s, pos, lit)
    THEN <<pos>> \o LiteralMatches(s, pos + Len(lit), lit)
    ELSE LiteralMatches(s, pos + 1, lit)

\* Text.highlight_regex(pattern, style): one span per match.  A pattern is
\* [kind |-> "literal", lit |-> a non-empty string] or [kind |-> "malformed"],
\* which re.compile rejects with re.error.
HighlightRegex(t, pattern, style) ==
    LET starts == LiteralMatches(t.plain, 0, pattern.lit)
    IN [t EXCEPT !.spans =
           @ \o [k \in 1..Len(starts) |->
                    [start |-> starts[k], end |-> starts[k] + Len(pattern.lit),
                     style |-> style]]]

\* step 1 with the try around the whole loop: the first pattern that raises
\* re.error ends it
RECURSIVE ApplyCustomPatternsUntilError(_, _)
ApplyCustomPatternsUntilError(t, patterns) ==
    IF patterns = <<>> \/ Head(patterns).pattern.kind = "malformed" THEN t
    ELSE ApplyCustomPatternsUntilError(
             HighlightRegex(t, Head(patterns).pattern, Head(patterns).style),
             Tail(patterns))

\* step 1 of highlight(): every custom pattern in insertion order, a pattern
\* that raises re.error skipped
RECURSIVE ApplyCustomPatterns(_, _)
ApplyCustomPatterns(t, patterns) ==
    IF patterns = <<>> THEN t
    ELSE LET p == Head(patterns)
         IN ApplyCustomPatterns(
                IF p.pattern.kind = "malformed" THEN t
                ELSE HighlightRegex(t, p.pattern, p.style),
                Tail(patterns))

\* The body of the loop of step 2 of highlight() for one match m; st is
\* [text, flag], flag being backtick_replacements.
ApplyMatch(st, m, index) ==
    LET t == st.text
        content == Slice(t.plain, m.bt_content[1], m.bt_content[2])
        opt == Slice(t.plain, m.args[1], m.args[2])
    IN IF m.last = "prog" /\ m.prog # NoSpan
       THEN [st EXCEPT !.text = Stylize(t, "argparse.prog", m.prog[1], m.prog[2])]
       ELSE IF m.last = "command"
       THEN LET t1 == IF m.prog # NoSpan
                      THEN Stylize(t, "argparse.prog", m.prog[1], m.prog[2])
                      ELSE t
                t2 == IF m.command # NoSpan
                      THEN Stylize(t1, "argparse.prog", m.command[1], m.command[2])
                      ELSE t1
            IN [st EXCEPT !.text = t2]
       ELSE IF m.last = "version"
       THEN [st EXCEPT !.text =
                Stylize(t, "argparse.metavar", m.version[1], m.version[2])]
       ELSE IF m.last = "backtick"
       THEN IF content \in DOMAIN index
            THEN [text |-> Stylize(t, "argparse.args",
                                   m.backtick[1] + 1, m.backtick[2] - 1),
                  flag |-> TRUE]
            ELSE IF IsOptToken(content) THEN st
            ELSE [text |-> Stylize(t, "argparse.syntax",
                                   m.backtick[1] + 1, m.backtick[2] - 1),
                  flag |-> TRUE]
       ELSE IF m.last \in {"args", "metavar"} /\ m.args # NoSpan
       THEN IF opt \in DOMAIN index
            THEN LET t1 == Stylize(t, "argparse.args", m.args[1], m.args[2])
                 IN [st EXCEPT !.text =
                        IF m.metavar # NoSpan /\ index[opt].metavar # <<>>
                        THEN Stylize(t1, "argparse.metavar",
                                     m.metavar[1], m.metavar[2])
                        ELSE t1]
            ELSE st
       ELSE st

\* step 2 of highlight(): the loop over the matches
RECURSIVE ApplyMatches(_, _, _)
ApplyMatches(st, matches, index) ==
    IF matches = <<>> THEN st
    ELSE ApplyMatches(ApplyMatch(st, Head(matches), index), Tail(matches), index)

\* The body of the loop of _remove_backticks_preserve_style for one span; st
\* is [out, last_end], out being combined_text.
CopySpan(st, src, span) ==
    LET before == IF st.last_end < span.start
                  THEN TextAppend(st.out,
                           StripBackticks(Slice(src.plain, st.last_end, span.start)),
                           "")
                  ELSE st.out
    IN [out |-> TextAppend(before,
                    StripBackticks(Slice(src.plain, span.start, span.end)),
                    span.style),
        last_end |-> span.end]

RECURSIVE CopySpans(_, _, _)
CopySpans(st, src, spans) ==
    IF spans = <<>> THEN st
    ELSE CopySpans(CopySpan(st, src, Head(spans)), src, Tail(spans))

\* A rebuild that strips the plain text and leaves the spans at the offsets
\* they had in the text with backticks.
RemoveBackticksKeepOffsets(src) ==
    [plain |-> StripBackticks(src.plain), spans |-> src.spans]

\* NeonHighlighter._remove_backticks_preserve_style: the spans are walked in
\* the order of rich_text.spans, the order in which they were appended
RemoveBackticksPreserveStyle(src) ==
    LET st == CopySpans([out |-> [plain |-> <<>>, spans |-> <<>>], last_end |-> 0],
                        src, src.spans)
    IN IF st.last_end < Len(src.plain)
       THEN TextAppend(st.out,
                StripBackticks(Slice(src.plain, st.last_end, Len(src.plain))), "")
       ELSE st.out

\* steps 1 and 2 of highlight(): [text, flag]
HighlightSteps12(t, patterns, c, index) ==
    LET t1 == ApplyCustomPatterns(t, patterns)
    IN ApplyMatches([text |-> t1, flag |-> FALSE], FindIter(t1.plain, 0, c), index)

\* A step 3 that does not read preserve_backticks.
HighlightStep3IgnoringPreserve(st, preserve_backticks) ==
    IF st.flag THEN RemoveBackticksPreserveStyle(st.text) ELSE st.text

\* A step 3 that does not read backtick_replacements.
HighlightStep3IgnoringFlag(st, preserve_backticks) ==
    IF ~preserve_backticks THEN RemoveBackticksPreserveStyle(st.text) ELSE st.text

\* step 3 of highlight(): text.plain and text._spans are those of the rebuilt
\* text when preserve_backticks is off and a backtick span was styled
HighlightStep3(st, preserve_backticks) ==
    IF ~preserve_backticks /\ st.flag
    THEN RemoveBackticksPreserveStyle(st.text)
    ELSE st.text

----------------------------------------------------------------------------
(* Config (src/neon/config.py).  An Optional[int] is <<>> for None and <<n>> *)
(* for the integer n.                                                       *)

None == <<>>

DefaultConfig ==
    [indent |-> 2, section_gap |-> 1, max_width |-> None, no_wrap_usage |-> TRUE,
     arg_column_width |-> None, dyn_format |-> TRUE, preserve_backticks |-> FALSE,
     debug |-> FALSE]

\* Config.merge(**kwargs): a new Config, kwargs being a function from the
\* names of the fields it sets
Merge(cfg, kwargs) ==
    [f \in DOMAIN cfg |-> IF f \in DOMAIN kwargs THEN kwargs[f] ELSE cfg[f]]

----------------------------------------------------------------------------
(* argparse, the base library, as NeonArgumentParser drives it.             *)
(*   parser = [prog, prefix_chars, add_help, optionals_title, description,  *)
(*             epilog, config, actions (_actions), groups (_action_groups)] *)
(* config is the _config of a subcommand parser, [object, value]; the       *)
(* _config of the parser the specifications build is the variable config,   *)
(* and its field config is None.                                            *)
(* The default group of the options is titled "optional arguments" up to     *)
(* Python 3.9 and "options" from Python 3.10 on.                            *)

\* argparse.SUPPRESS
SUPPRESS == "==SUPPRESS=="

\* a keyword argument the caller did not pass
Unset == "unset"

CharSet(s) == {s[k] : k \in 1..Len(s)}

NewAction(id, option_strings, dest, metavar) ==
    [id |-> id, option_strings |-> option_strings, dest |-> dest,
     metavar |-> metavar, help |-> "text", kind |-> "store", nargs |-> "None",
     required |-> FALSE, default |-> "None", choices |-> <<>>, subs |-> <<>>,
     prog_prefix |-> <<>>, inherited_groups |-> <<>>, parent_config |-> <<>>]

NewGroup(title, inherit, actions) ==
    [title |-> title, inherit |-> inherit, actions |-> actions]

\* What a caller passes to add_argument: names are the positional arguments
\* of the call, the rest its keyword arguments (metavar <<>>, help "None",
\* nargs "None" and choices <<>> are argparse's defaults).
Decl(names, metavar, help, kind, nargs, required, default) ==
    [names |-> names, metavar |-> metavar, help |-> help, kind |-> kind,
     nargs |-> nargs, required |-> required, default |-> default,
     choices |-> <<>>]

\* str.lstrip(chars)
RECURSIVE LStrip(_, _)
LStrip(s, chars) ==
    IF s # <<>> /\ Head(s) \in chars THEN LStrip(Tail(s), chars) ELSE s

\* str.rstrip(chars)
RECURSIVE RStrip(_, _)
RStrip(s, chars) ==
    IF s # <<>> /\ s[Len(s)] \in chars
    THEN RStrip(SubSeq(s, 1, Len(s) - 1), chars)
    ELSE s

\* str.replace('-', '_')
DashToUnderscore(s) == [k \in 1..Len(s) |-> IF s[k] = "-" THEN "_" ELSE s[k]]

\* the keys of _option_string_actions: the option strings p has taken
OptionStringsOf(p) ==
    UNION {CharSet(p.actions[k].option_strings) : k \in 1..Len(p.actions)}

\* add_argument(*d.names, **kwargs) on the group g of p: [raised, parser].
\* One name that starts with no prefix character declares a positional, for
\* which 'required' is an invalid argument; an option string must start with
\* a prefix character and must not be taken (conflict_handler is 'error').
AddArgumentTo(p, g, d) ==
    LET chars == CharSet(p.prefix_chars)
        positional == Len(d.names) = 1 /\ d.names[1][1] \notin chars
        long == SelectSeq(d.names, LAMBDA n : Len(n) > 1 /\ n[2] \in chars)
        dest_option_string == IF long # <<>> THEN long[1] ELSE d.names[1]
        dest == IF positional THEN d.names[1]
                ELSE DashToUnderscore(LStrip(dest_option_string, chars))
        raises ==
            IF positional THEN d.required # Unset
            ELSE \/ \E k \in 1..Len(d.names) : d.names[k][1] \notin chars
                 \/ dest = <<>>
                 \/ \E k \in 1..Len(d.names) : d.names[k] \in OptionStringsOf(p)
        action ==
            [NewAction(Len(p.actions) + 1,
                       IF positional THEN <<>> ELSE d.names, dest, d.metavar)
             EXCEPT !.help = d.help,
                    !.kind = d.kind,
                    !.nargs = IF d.kind \in {"store_true", "count", "help"}
                              THEN "0" ELSE d.nargs,
                    !.required =
                        IF positional
                        THEN \/ d.nargs \notin {"?", "*"}
                             \/ d.nargs = "*" /\ d.default = Unset
                        ELSE d.required = "True",
                    !.default = IF d.kind = "help" THEN SUPPRESS
                                ELSE IF d.default # Unset THEN d.default
                                ELSE IF d.kind = "store_true" THEN "False"
                                ELSE "None",
                    !.choices = d.choices]
    IN [raised |-> raises,
        parser |-> IF raises THEN p
                   ELSE [p EXCEPT !.actions = Append(@, action),
                                  !.groups[g].actions = Append(@, action)]]

\* the -h/--help argument argparse adds when add_help is true, spelt with the
\* parser's default prefix character
HelpDecl(prefix_chars) ==
    LET c == IF "-" \in CharSet(prefix_chars) THEN "-" ELSE prefix_chars[1]
    IN Decl(<<<<c, "h">>, <<c, c, "h", "e", "l", "p">>>>, <<>>, "text", "help",
            "None", Unset, Unset)

\* argparse.ArgumentParser.__init__: the two default groups and the help
\* argument
NewParser(prog, prefix_chars, add_help, optionals_title) ==
    LET empty == [prog |-> prog, prefix_chars |-> prefix_chars,
                  add_help |-> add_help, optionals_title |-> optionals_title,
                  description |-> None, epilog |-> None, config |-> None,
                  actions |-> <<>>,
                  groups |-> <<NewGroup("positional arguments", FALSE, <<>>),
                               NewGroup(optionals_title, FALSE, <<>>)>>]
    IN IF add_help THEN AddArgumentTo(empty, 2, HelpDecl(prefix_chars)).parser
       ELSE empty

----------------------------------------------------------------------------
(* Building blocks of the parsers and texts the specifications start from.  *)

\* NeonArgumentParser(prog=prog, add_help=False) followed by
\* add_argument_group(title).add_argument(...) for every action of actions
ParserWithGroup(prog, title, actions) ==
    LET p == NewParser(prog, <<"-">>, FALSE, "optional arguments")
    IN [p EXCEPT !.actions = actions,
                 !.groups = Append(@, NewGroup(title, FALSE, actions))]

\* The words the texts of the highlighter's specification are made of: a known
\* option, an unknown option and a plain word, each bare and in backticks, a
\* lone backtick, a blank, the program name and a version number.
Vocabulary ==
    { <<BT, "-", "a", BT>>, <<BT, "-", "z", BT>>, <<BT, "x", BT>>, <<BT>>,
      <<" ">>, <<"-", "a">>, <<"-", "z">>, <<"x">>, <<"p">>,
      <<"1", ".", "1", ".", "1">> }

\* Text.from_markup of the words ws, the m-th of them (none when m = 0) inside
\* a markup tag: the tag's span is in the text before highlight() sees it.
\* The specification puts the tag around the first or the last word.
MarkupText(ws, m) ==
    [plain |-> Flatten(ws),
     spans |-> IF m = 0 THEN <<>>
               ELSE LET a == Len(Flatten(SubSeq(ws, 1, m - 1)))
                    IN <<[start |-> a, end |-> a + Len(ws[m]),
                          style |-> "argparse.default"]>>]

\* the custom patterns a highlighter is constructed with
PatternChoices ==
    { <<>>,
      <<[pattern |-> [kind |-> "literal", lit |-> <<"a">>],
         style |-> "argparse.custom"]>> }

----------------------------------------------------------------------------
(* RichFormatter (src/neon/formatter.py).  A markup string is a sequence of  *)
(* characters; the name of a style is one element of it, which is only ever *)
(* found inside a tag.                                                      *)

\* the backslash
BS == "\\"

\* the line feed
NL == "NL"

\* [style]s[/style]
Styled(style, s) == <<"[", style, "]">> \o s \o <<"[", "/", style, "]">>

\* sep.join(parts)
RECURSIVE Join(_, _)
Join(sep, parts) ==
    IF parts = <<>> THEN <<>>
    ELSE IF Len(parts) = 1 THEN parts[1]
    ELSE parts[1] \o sep \o Join(sep, Tail(parts))

\* pattern.sub('', s) from offset pos on, pattern being \[(\/?)[^\]]+\]: a
\* bracket followed by one or more characters other than the closing bracket
\* and then the closing bracket is deleted, whatever it holds
RECURSIVE StripFrom(_, _)
StripFrom(s, pos) ==
    IF pos >= Len(s) THEN <<>>
    ELSE LET b == RunEnd(s, pos, "notlb")
             e == RunEnd(s, b + 1, "notrb")
         IN IF b >= Len(s) THEN Slice(s, pos, Len(s))
            ELSE IF e > b + 1 /\ e < Len(s)
            THEN Slice(s, pos, b) \o StripFrom(s, e + 1)
            ELSE Slice(s, pos, b + 1) \o StripFrom(s, b + 1)

\* strip_rich_tags(text)
StripRichTags(s) == StripFrom(s, 0)

ToUpper(c) ==
    CASE c = "a" -> "A" [] c = "b" -> "B" [] c = "c" -> "C" [] c = "d" -> "D"
      [] c = "e" -> "E" [] c = "f" -> "F" [] c = "h" -> "H" [] c = "l" -> "L"
      [] c = "p" -> "P" [] c = "s" -> "S" [] c = "v" -> "V" [] c = "x" -> "X"
      [] c = "z" -> "Z" [] OTHER -> c

\* str.upper()
Upper(s) == [k \in 1..Len(s) |-> ToUpper(s[k])]

\* A rendering of an option that never pads a lone long option.
FormatActionInvocationUnpadded(action) ==
    IF action.option_strings = <<>>
    THEN IF action.metavar # <<>>
         THEN Styled("argparse.metavar", action.metavar)
         ELSE IF action.dest # <<SUPPRESS>>
         THEN Styled("argparse.metavar", Upper(action.dest))
         ELSE <<>>
    ELSE LET option_str ==
                 Join(<<",", " ">>,
                      [k \in 1..Len(action.option_strings) |->
                          Styled("argparse.args", action.option_strings[k])])
         IN IF action.metavar # <<>>
            THEN option_str \o <<" ">> \o Styled("argparse.metavar", action.metavar)
            ELSE option_str

\* RichFormatter._format_action_invocation
FormatActionInvocation(action) ==
    IF action.option_strings = <<>>
    THEN IF action.metavar # <<>>
         THEN Styled("argparse.metavar", action.metavar)
         ELSE IF action.dest # <<SUPPRESS>>
         THEN Styled("argparse.metavar", Upper(action.dest))
         ELSE <<>>
    ELSE LET option_parts ==
                 [k \in 1..Len(action.option_strings) |->
                     Styled("argparse.args", action.option_strings[k])]
             option_str == Join(<<",", " ">>, option_parts)
             spaced ==
                 IF /\ Len(action.option_strings) = 1
                    /\ LiteralAt(action.option_strings[1], 0, <<"-", "-">>)
                 THEN <<" ", " ", " ", " ">> \o option_str
                 ELSE option_str
         IN IF action.metavar # <<>>
            THEN spaced \o <<" ">> \o Styled("argparse.metavar", action.metavar)
            ELSE spaced

Max(a, b) == IF a > b THEN a ELSE b

\* max() of a set of naturals, 0 for the empty set
MaxOf(S) == IF S = {} THEN 0 ELSE CHOOSE m \in S : \A n \in S : n <= m

\* the first _SubParsersAction of parser._actions, as a sequence of at most
\* one action
SubparsersActions(p) ==
    LET found == SelectSeq(p.actions, LAMBDA a : a.kind = "parsers")
    IN IF found = <<>> THEN <<>> ELSE <<found[1]>>

\* RichFormatter._calculate_max_arg_column_width
CalculateMaxArgColumnWidth(p) ==
    LET names == UNION {{a.subs[j].name : j \in 1..Len(a.subs)} :
                           a \in {b \in CharSet(p.actions) : b.kind = "parsers"}}
        all_actions ==
            {a \in CharSet(GroupActions(p)) :
                a.help # SUPPRESS /\ a.kind # "parsers"}
        widths ==
            {Len(StripRichTags(FormatActionInvocation(a))) :
                a \in {b \in all_actions : FormatActionInvocation(b) # <<>>}}
        max_width == MaxOf({Len(n) : n \in names} \cup widths)
    IN Max(max_width + 3, 10)

\* a or b for two Optional[int]
OrElse(a, b) == IF a # None /\ a # <<0>> THEN a ELSE b

\* RichFormatter._create_section_table; st is [calc_width, tables]
CreateSectionTable(st, p, cfg) ==
    LET calculated ==
            IF cfg.arg_column_width = None /\ st.calc_width = None
            THEN <<CalculateMaxArgColumnWidth(p)>>
            ELSE st.calc_width
        arg_col_width == OrElse(cfg.arg_column_width, calculated)
    IN [calc_width |-> calculated, tables |-> Append(st.tables, arg_col_width)]

\* RichFormatter._format_subcommands
FormatSubcommands(st, p, cfg) ==
    LET found == SubparsersActions(p)
    IN IF found = <<>> \/ found[1].subs = <<>> THEN st
       ELSE CreateSectionTable(st, p, cfg)

\* RichFormatter._format_argument_groups, from the g-th group on
RECURSIVE FormatArgumentGroups(_, _, _, _, _)
FormatArgumentGroups(st, p, cfg, g, processed_groups) ==
    IF g > Len(p.groups) THEN st
    ELSE LET group == p.groups[g]
             actions == SelectSeq(group.actions, LAMBDA a : a.help # SUPPRESS)
             skipped ==
                 \/ group.title \in {"positional arguments", "optional arguments"}
                 \/ actions = <<>>
                 \/ \E k \in 1..Len(actions) : actions[k].kind = "parsers"
                 \/ group.title \in processed_groups
         IN IF skipped
            THEN FormatArgumentGroups(st, p, cfg, g + 1, processed_groups)
            ELSE FormatArgumentGroups(CreateSectionTable(st, p, cfg), p, cfg, g + 1,
                                      processed_groups \cup {group.title})

\* self.config.max_width or 80
WidthInForce(cfg) ==
    IF cfg.max_width # None /\ cfg.max_width # <<0>> THEN cfg.max_width[1] ELSE 80

\* [argparse.text]...[/argparse.text]
Ellipsis == Styled("argparse.text", <<".", ".", ".">>)

\* parts of _build_usage_text: "Usage:" and the program name
UsagePrefixParts(p) ==
    <<Styled("argparse.groups", <<"U", "s", "a", "g", "e", ":">>),
      Styled("argparse.prog",
             IF p.prog # <<>> THEN p.prog
             ELSE <<"p", "r", "o", "g", "r", "a", "m">>)>>

\* the part of _build_usage_text for an action with option strings
OptionalPart(action, cfg) ==
    LET opt_str == Styled("argparse.args", action.option_strings[1])
        body == IF action.metavar # <<>>
                THEN opt_str \o <<" ">> \o Styled("argparse.metavar", action.metavar)
                ELSE opt_str
    IN IF action.required /\ cfg.debug THEN <<"<">> \o body \o <<">">>
       ELSE <<BS, "[">> \o body \o <<"]">>

\* the part of _build_usage_text for a positional, none for the ones it skips
PositionalParts(action) ==
    LET metavar == IF action.metavar # <<>> THEN action.metavar
                   ELSE Upper(action.dest)
        m == Styled("argparse.metavar", metavar)
    IN IF action.dest = <<"h", "e", "l", "p">> THEN <<>>
       ELSE IF action.metavar = <<>> /\ action.dest = <<SUPPRESS>> THEN <<>>
       ELSE IF action.nargs = "?" THEN <<<<BS, "[">> \o m \o <<"]">>>>
       ELSE IF action.nargs = "*"
       THEN <<<<BS, "[">> \o m \o <<" ">> \o Ellipsis \o <<"]">>>>
       ELSE IF action.nargs = "+"
       THEN <<m \o <<" ", BS, "[">> \o m \o <<" ">> \o Ellipsis \o <<"]">>>>
       ELSE <<m>>

\* optional_args of _build_usage_text
UsageOptionalArgs(p, cfg) ==
    Flatten([k \in 1..Len(p.actions) |->
                IF p.actions[k].kind # "parsers" /\ p.actions[k].option_strings # <<>>
                THEN <<OptionalPart(p.actions[k], cfg)>>
                ELSE <<>>])

\* positional_args of _build_usage_text
UsagePositionalArgs(p) ==
    Flatten([k \in 1..Len(p.actions) |->
                IF p.actions[k].kind # "parsers" /\ p.actions[k].option_strings = <<>>
                THEN PositionalParts(p.actions[k])
                ELSE <<>>])

\* subcommands of _build_usage_text
UsageSubcommands(p) ==
    IF SubparsersActions(p) = <<>> THEN <<>>
    ELSE <<Styled("argparse.args", <<"c", "o", "m", "m", "a", "n", "d">>)
             \o <<" ">> \o Ellipsis>>

\* line of _build_usage_text: all the parts on one line
UsageLine(p, cfg) ==
    Join(<<" ">>, UsagePrefixParts(p) \o UsageOptionalArgs(p, cfg)
                    \o UsagePositionalArgs(p) \o UsageSubcommands(p))

\* the loop of _insert_smart_breaks over the optional arguments; st is
\* [result, current_line_length]
RECURSIVE BreakOptionalArgs(_, _, _, _)
BreakOptionalArgs(st, optional_args, continuation_indent, width) ==
    IF optional_args = <<>> THEN st
    ELSE LET part == Head(optional_args)
             part_length == Len(StripRichTags(part))
             new_line == st.current_line_length + part_length + 1 > width
             result == IF new_line
                       THEN Append(st.result, <<NL>> \o continuation_indent)
                       ELSE st.result
             current == IF new_line THEN Len(continuation_indent)
                        ELSE st.current_line_length
         IN BreakOptionalArgs([result |-> Append(result, part),
                               current_line_length |-> current + part_length + 1],
                              Tail(optional_args), continuation_indent, width)

\* A re-flow whose continuation lines are indented by the length of "Usage:".
InsertSmartBreaksShortIndent(parts, optional_args, positional_args, subcommands, width) ==
    LET continuation_indent == [k \in 1..Len(StripRichTags(parts[1])) |-> " "]
        after_optionals ==
            BreakOptionalArgs([result |-> parts,
                               current_line_length |->
                                   Len(StripRichTags(Join(<<" ">>, parts))) + 1],
                              optional_args, continuation_indent, width).result
        after_positionals ==
            IF positional_args # <<>>
            THEN Append(after_optionals, <<NL>> \o continuation_indent)
                   \o positional_args
            ELSE after_optionals
        after_subcommands ==
            IF subcommands # <<>>
            THEN Append(after_positionals, <<NL>> \o continuation_indent)
                   \o subcommands
            ELSE after_positionals
    IN Join(<<" ">>, after_subcommands)

\* RichFormatter._insert_smart_breaks
InsertSmartBreaks(parts, optional_args, positional_args, subcommands, width) ==
    LET usage_prefix_length == Len(StripRichTags(Join(<<" ">>, parts)))
        continuation_indent == [k \in 1..usage_prefix_length |-> " "]
        after_optionals ==
            BreakOptionalArgs([result |-> parts,
                               current_line_length |-> usage_prefix_length + 1],
                              optional_args, continuation_indent, width).result
        after_positionals ==
            IF positional_args # <<>>
            THEN Append(after_optionals, <<NL>> \o continuation_indent)
                   \o positional_args
            ELSE after_optionals
        after_subcommands ==
            IF subcommands # <<>>
            THEN Append(after_positionals, <<NL>> \o continuation_indent)
                   \o subcommands
            ELSE after_positionals
    IN Join(<<" ">>, after_subcommands)

\* RichFormatter._build_usage_text
BuildUsageText(p, cfg) ==
    IF Len(StripRichTags(UsageLine(p, cfg))) > WidthInForce(cfg)
    THEN InsertSmartBreaks(UsagePrefixParts(p), UsageOptionalArgs(p, cfg),
                           UsagePositionalArgs(p), UsageSubcommands(p),
                           WidthInForce(cfg))
    ELSE UsageLine(p, cfg)

\* What console.print(text) leaves in the capture: the text and the line
\* feed that ends it.  The layout is rich's; the text stands for its rendering.
Printed(s) == s \o <<NL>>

\* What console.print(table) leaves in the capture; one element stands for
\* the rows rich lays out.
PrintedTable == <<"<table>", NL>>

\* a title line and the table under it
TitledTable(title) == Printed(<<title, ":">>) \o PrintedTable

\* an entry of the list sections of format_help
Section(kind, title, body) == [kind |-> kind, title |-> title, text |-> body]

\* the titles of the groups _format_argument_groups renders, from the g-th
\* group on
RECURSIVE RenderedGroups(_, _, _)
RenderedGroups(p, g, processed_groups) ==
    IF g > Len(p.groups) THEN <<>>
    ELSE LET group == p.groups[g]
             actions == SelectSeq(group.actions, LAMBDA a : a.help # SUPPRESS)
             skipped ==
                 \/ group.title \in {"positional arguments", "optional arguments"}
                 \/ actions = <<>>
                 \/ \E k \in 1..Len(actions) : actions[k].kind = "parsers"
                 \/ group.title \in processed_groups
         IN IF skipped THEN RenderedGroups(p, g + 1, processed_groups)
            ELSE <<group.title>>
                   \o RenderedGroups(p, g + 1, processed_groups \cup {group.title})

\* format_help with the custom sections appended before the tables of the
\* argument groups
FormatSectionsCustomFirst(p, usage_text, hdr, custom) ==
    LET found == SubparsersActions(p)
        titles == RenderedGroups(p, 1, {})
    IN (IF hdr # <<>> THEN <<Section("header", "", Printed(hdr))>> ELSE <<>>)
       \o <<Section("usage", "", Printed(usage_text))>>
       \o (IF p.description # <<>>
           THEN <<Section("description", "", Printed(p.description))>> ELSE <<>>)
       \o (IF found # <<>> /\ found[1].subs # <<>>
           THEN <<Section("subcommands", "Commands", TitledTable("Commands"))>>
           ELSE <<>>)
       \o [k \in 1..Len(custom) |->
              Section("custom", custom[k].title, TitledTable(custom[k].title))]
       \o [k \in 1..Len(titles) |-> Section("group", titles[k], TitledTable(titles[k]))]
       \o (IF p.epilog # <<>>
           THEN <<Section("epilog", "", Printed(p.epilog))>> ELSE <<>>)

\* sections of format_help, before _join_sections; usage_text is what
\* _build_usage_text returned
FormatSections(p, usage_text, hdr, custom) ==
    LET found == SubparsersActions(p)
        titles == RenderedGroups(p, 1, {})
    IN (IF hdr # <<>> THEN <<Section("header", "", Printed(hdr))>> ELSE <<>>)
       \o <<Section("usage", "", Printed(usage_text))>>
       \o (IF p.description # <<>>
           THEN <<Section("description", "", Printed(p.description))>> ELSE <<>>)
       \o (IF found # <<>> /\ found[1].subs # <<>>
           THEN <<Section("subcommands", "Commands", TitledTable("Commands"))>>
           ELSE <<>>)
       \o [k \in 1..Len(titles) |-> Section("group", titles[k], TitledTable(titles[k]))]
       \o [k \in 1..Len(custom) |->
              Section("custom", custom[k].title, TitledTable(custom[k].title))]
       \o (IF p.epilog # <<>>
           THEN <<Section("epilog", "", Printed(p.epilog))>> ELSE <<>>)

\* str.strip() of s is empty
IsBlank(s) == \A k \in 1..Len(s) : s[k] \in {" ", NL}

\* _join_sections without the test that drops the blank sections
JoinSectionsKeepingBlank(secs, cfg) ==
    LET cleaned_sections == [k \in 1..Len(secs) |-> RStrip(secs[k].text, {" ", NL})]
        gap == [k \in 1..(cfg.section_gap + 1) |-> NL]
    IN Join(gap, cleaned_sections)

\* RichFormatter._join_sections
JoinSections(secs, cfg) ==
    LET kept == SelectSeq(secs, LAMBDA sec : ~IsBlank(sec.text))
        cleaned_sections == [k \in 1..Len(kept) |-> RStrip(kept[k].text, {" ", NL})]
        gap == [k \in 1..(cfg.section_gap + 1) |-> NL]
    IN Join(gap, cleaned_sections)

\* What the highlight() calls of one format_help() leave in the highlighter:
\* the pattern is compiled when there is none, the options are collected when
\* there are none.
LazyBuild(p, c, o) ==
    LET c1 == IF c.none THEN BuildRegex(p, c) ELSE c
    IN [compiled |-> c1,
        options |-> IF c1.none THEN o
                    ELSE IF o.none \/ DOMAIN o.index = {} THEN CollectOptions(p)
                    ELSE o]

\* RichFormatter.format_help of a formatter with the header hdr and the
\* custom sections custom: [calc_width, tables, usage, compiled, options,
\* sections, document] after the call
FormatHelpOf(p, cfg, calculated, c, o, hdr, custom) ==
    LET rendered(st, built, usage_text) ==
            LET joined(secs) ==
                    [calc_width |-> st.calc_width, tables |-> st.tables,
                     usage |-> usage_text,
                     compiled |-> built.compiled, options |-> built.options,
                     sections |-> secs,
                     document |-> JoinSections(secs, cfg)]
            IN joined(FormatSections(p, usage_text, hdr, custom))
    IN rendered(FormatArgumentGroups(
                    FormatSubcommands([calc_width |-> calculated, tables |-> <<>>],
                                      p, cfg),
                    p, cfg, 1, {}),
                IF cfg.dyn_format THEN LazyBuild(p, c, o)
                ELSE [compiled |-> c, options |-> o],
                BuildUsageText(p, cfg))

----------------------------------------------------------------------------
(* NeonArgumentParser (src/neon/parser.py): groups, subcommands and the     *)
(* inheritance of groups.                                                   *)

\* What argparse's add_subparsers() takes for the prog of the subcommands
\* when the caller passes none: formatter.format_help().strip(), which with
\* NeonHelpFormatter is the whole document RichFormatter.format_help()
\* renders.  The document is rich's output; one element stands for it.
RenderedDocument == <<"<document>">>

\* NeonArgumentParser.add_argument_group(title, inherit=inherit)
AddGroupTo(p, title, inherit) ==
    [p EXCEPT !.groups = Append(@, NewGroup(title, inherit, <<>>))]

\* action_info of add_subparsers: args and kwargs rebuilt from an action, a
\* kwarg that is not set being Unset (<<>> for metavar and choices)
ActionInfo(action) ==
    [args |-> IF action.option_strings # <<>> THEN action.option_strings
              ELSE <<action.dest>>,
     kwargs |->
        [help |-> IF action.help # "None" THEN action.help ELSE Unset,
         metavar |-> action.metavar,
         default |-> IF action.default \notin {SUPPRESS, "None"}
                     THEN action.default ELSE Unset,
         choices |-> action.choices,
         required |-> IF action.required THEN "True" ELSE Unset,
         action |-> IF action.kind \in {"count", "store_true", "store_false",
                                        "store_const"}
                    THEN action.kind ELSE Unset]]

\* inherited_groups of add_subparsers: of every group marked inherit, the
\* title and the actions whose help is not suppressed; no entry for a group
\* without such an action
InheritedGroupsOf(p) ==
    LET info(group) ==
            LET visible == SelectSeq(group.actions, LAMBDA a : a.help # SUPPRESS)
            IN [title |-> group.title,
                actions |-> [k \in 1..Len(visible) |-> ActionInfo(visible[k])]]
        marked == SelectSeq(p.groups, LAMBDA group : group.inherit)
        infos == [k \in 1..Len(marked) |-> info(marked[k])]
    IN SelectSeq(infos, LAMBDA group_info : group_info.actions # <<>>)

\* NeonArgumentParser.add_subparsers(prog=prog_prefix) of a parser whose
\* _config is cfg: the subparsers action joins the parser's actions and the
\* group of the positionals, and keeps cfg as _parent_config
AddSubparsersTo(p, prog_prefix, cfg) ==
    LET created == [NewAction(Len(p.actions) + 1, <<>>, <<SUPPRESS>>, <<>>)
                    EXCEPT !.help = "None", !.kind = "parsers", !.nargs = "A...",
                           !.prog_prefix = prog_prefix]
        action == [created EXCEPT !.inherited_groups = InheritedGroupsOf(p),
                                  !.parent_config = <<cfg>>]
    IN [p EXCEPT !.actions = Append(@, action),
                 !.groups[1].actions = Append(@, action)]

\* The add_argument call _add_inherited_groups makes for an action_info.
\* It tells a positional from an option by the dash.
InheritedDecl(action_info) ==
    LET args == action_info.args
        kwargs == action_info.kwargs
        dashed == \E k \in 1..Len(args) : LiteralAt(args[k], 0, <<"-">>)
    IN Decl(IF ~dashed THEN <<args[1]>> ELSE args,
            kwargs.metavar, IF kwargs.help = Unset THEN "None" ELSE kwargs.help,
            IF kwargs.action = Unset THEN "store" ELSE kwargs.action,
            "None", kwargs.required, kwargs.default)

\* the add_argument calls of _add_inherited_groups on the group g, up to the
\* first that raises; r is [raised, parser]
RECURSIVE AddInheritedActions(_, _, _)
AddInheritedActions(r, g, action_infos) ==
    IF action_infos = <<>> \/ r.raised THEN r
    ELSE AddInheritedActions(
             AddArgumentTo(r.parser, g, InheritedDecl(Head(action_infos))),
             g, Tail(action_infos))

\* NeonArgumentParser._add_inherited_groups; r is [raised, parser]
RECURSIVE AddInheritedGroups(_, _)
AddInheritedGroups(r, group_infos) ==
    IF group_infos = <<>> \/ r.raised THEN r
    ELSE LET inherited_group == AddGroupTo(r.parser, Head(group_infos).title, FALSE)
         IN AddInheritedGroups(
                AddInheritedActions([raised |-> FALSE, parser |-> inherited_group],
                                    Len(inherited_group.groups),
                                    Head(group_infos).actions),
                Tail(group_infos))

\* str.endswith(suffix)
EndsWith(s, suffix) ==
    Len(suffix) <= Len(s) /\ LiteralAt(s, Len(s) - Len(suffix), suffix)

\* dict[key] = val on a dict kept as a sequence of [name, parser] in
\* insertion order
DictSet(d, name, val) ==
    IF \E k \in 1..Len(d) : d[k].name = name
    THEN [k \in 1..Len(d) |-> IF d[k].name = name
                              THEN [name |-> name, parser |-> val] ELSE d[k]]
    ELSE Append(d, [name |-> name, parser |-> val])

\* The _config NeonArgumentParser.__init__ stores for a parser created with
\* config=given (None, or <<cfg>>), the direct parameters kwargs (a function
\* from the names of the Config fields passed) and _parent_config=
\* parent_config (None, or <<cfg>>), as [object, value]: object tells which
\* Config object it is, the one "given", the "parent"'s, a "new" NeonConfig()
\* or the one "merged" by Config.merge.  The theme parameter is left at
\* "default", which __init__ replaces by _parent_theme, the Theme the parent
\* loaded; this and every direct parameter is an update to merge.
SubcommandConfig(parent_config, given, kwargs) ==
    LET passed == IF given = None THEN [object |-> "new", value |-> DefaultConfig]
                  ELSE [object |-> "given", value |-> given[1]]
        inherited(cfg) ==
            LET theme == IF parent_config # None THEN "<theme>" ELSE "default"
                config_updates == (IF theme # "default" THEN {"theme"} ELSE {})
                                     \cup DOMAIN kwargs
            IN IF config_updates # {}
               THEN [object |-> "merged", value |-> Merge(cfg.value, kwargs)]
               ELSE cfg
    IN inherited(IF parent_config # None
                 THEN [object |-> "parent", value |-> parent_config[1]]
                 ELSE passed)

\* A subcommand parser that takes the inheritable groups from the parent as
\* it is when add_parser() is called.
NewSubcommandParserLive(p, action, name, prefix_chars) ==
    LET stripped == RStrip(action.prog_prefix, {" "})
        prog_name == IF EndsWith(stripped, name) THEN stripped
                     ELSE stripped \o <<" ">> \o name
    IN AddInheritedGroups(
           [raised |-> FALSE,
            parser |-> [NewParser(prog_name, prefix_chars, p.add_help,
                                  p.optionals_title)
                        EXCEPT !.config = SubcommandConfig(action.parent_config,
                                                           None, <<>>)]],
           InheritedGroupsOf(p))

\* _NeonSubParsersAction.add_parser(name, prefix_chars=prefix_chars) of the
\* subparsers action of p, and NeonArgumentParser.__init__ of the parser it
\* creates: [raised, parser], parser being the subcommand's
NewSubcommandParser(p, action, name, prefix_chars) ==
    LET stripped == RStrip(action.prog_prefix, {" "})
        prog_name == IF EndsWith(stripped, name) THEN stripped
                     ELSE stripped \o <<" ">> \o name
    IN AddInheritedGroups(
           [raised |-> FALSE,
            parser |-> [NewParser(prog_name, prefix_chars, p.add_help,
                                  p.optionals_title)
                        EXCEPT !.config = SubcommandConfig(action.parent_config,
                                                           None, <<>>)]],
           action.inherited_groups)

\* self._name_parser_map[name] = parser: p with the subcommand registered
RegisterSubcommand(p, name, sub) ==
    LET registered(a) ==
            IF a.kind = "parsers"
            THEN [a EXCEPT !.subs = DictSet(@, name, sub)]
            ELSE a
    IN [p EXCEPT
          !.actions = [k \in 1..Len(@) |-> registered(@[k])],
          !.groups = [g \in 1..Len(@) |->
                         [@[g] EXCEPT !.actions =
                             [k \in 1..Len(@) |-> registered(@[k])]]]]

----------------------------------------------------------------------------
(* The highlighter's specification: highlight() called on a text.           *)

\* A highlight() that collects the options on every call.
HighlightRecollecting ==
    /\ calls < MaxCalls
    /\ LET c == IF compiled.none THEN BuildRegex(parser, compiled) ELSE compiled
       IN /\ compiled' = c
          /\ pre' = text
          /\ calls' = calls + 1
          /\ IF c.none
             THEN /\ UNCHANGED <<text, options>>
                  /\ mid' = text
                  /\ flagged' = FALSE
             ELSE LET o == CollectOptions(parser)
                      st == HighlightSteps12(text, custom_patterns, c, o.index)
                  IN /\ options' = o
                     /\ mid' = st.text
                     /\ flagged' = st.flag
                     /\ text' = HighlightStep3(st, config.preserve_backticks)
    /\ UNCHANGED <<config, custom_patterns, parser, fmtvars>>

\* NeonHighlighter.highlight(text)
Highlight ==
    /\ calls < MaxCalls
    /\ LET c == IF compiled.none THEN BuildRegex(parser, compiled) ELSE compiled
       IN /\ compiled' = c
          /\ pre' = text
          /\ calls' = calls + 1
          /\ IF c.none
             THEN /\ UNCHANGED <<text, options>>
                  /\ mid' = text
                  /\ flagged' = FALSE
             ELSE LET o == IF options.none \/ DOMAIN options.index = {}
                           THEN CollectOptions(parser)
                           ELSE options
                      st == HighlightSteps12(text, custom_patterns, c, o.index)
                  IN /\ options' = o
                     /\ mid' = st.text
                     /\ flagged' = st.flag
                     /\ text' = HighlightStep3(st, config.preserve_backticks)
    /\ UNCHANGED <<config, custom_patterns, parser, fmtvars>>

\* NeonHighlighter.__init__: nothing compiled, nothing collected
InitHighlighter ==
    /\ compiled = [none |-> TRUE, prog |-> <<>>, parts |-> <<>>]
    /\ options = [none |-> TRUE, index |-> <<>>]
    /\ calls = 0
    /\ flagged = FALSE

\* RichFormatter.__init__: no width calculated, nothing rendered
InitFormatter ==
    /\ calc_width = None
    /\ tables = <<>>
    /\ usage = <<>>
    /\ header = None
    /\ custom_sections = <<>>
    /\ sections = <<>>
    /\ document = <<>>

Init ==
    /\ InitHighlighter
    /\ InitFormatter
    /\ \E n \in 0..MaxTokens :
         \E ws \in [1..n -> Vocabulary] :
           \E m \in {0, 1, n} \cap 0..n :
             /\ text = MarkupText(ws, m)
             /\ pre = text
             /\ mid = text
    /\ \E pb \in BOOLEAN : config = [DefaultConfig EXCEPT !.preserve_backticks = pb]
    /\ custom_patterns \in PatternChoices
    /\ parser = ParserWithGroup(<<"p">>, "Options",
                    <<NewAction(1, <<<<"-", "a">>>>, <<"a">>, <<"M">>)>>)

Next == Highlight

Spec == Init /\ [][Next]_vars

----------------------------------------------------------------------------
(* Properties of highlight().                                               *)

\* the last highlight() call rebuilt the text without its backticks
StripRan == calls > 0 /\ flagged /\ ~config.preserve_backticks

\* the characters a span covers
Covered(t, span) == Slice(t.plain, span.start, span.end)

SpanSet(t) == {t.spans[k] : k \in 1..Len(t.spans)}

HasBacktick(s) == \E j \in 1..Len(s) : s[j] = BT

\* the offsets of the backticks of s, ascending
RECURSIVE BacktickOffsets(_, _)
BacktickOffsets(s, pos) ==
    IF pos >= Len(s) THEN <<>>
    ELSE IF s[pos + 1] = BT THEN <<pos>> \o BacktickOffsets(s, pos + 1)
    ELSE BacktickOffsets(s, pos + 1)

\* The backtick spans of s as a reader pairs them, the first backtick with
\* the second, the third with the fourth: <<a, b>> with the opening backtick
\* at offset a and the closing one at offset b - 1.
BacktickSpans(s) ==
    LET bo == BacktickOffsets(s, 0)
    IN {<<bo[2 * k - 1], bo[2 * k] + 1>> : k \in 1..(Len(bo) \div 2)}

\* what is between the backticks of a backtick span
Enclosed(s, bs) == Slice(s, bs[1] + 1, bs[2] - 1)

\* the spans the built-in step of the last call appended
BuiltinSpans ==
    SubSeq(mid.spans, Len(ApplyCustomPatterns(pre, custom_patterns).spans) + 1,
           Len(mid.spans))

\* C1: whenever highlight() strips backticks, the resulting plain text is the
\* input plain text with every backtick removed, nothing duplicated, dropped
\* or reordered, whatever spans the text carries.
C1_StripIsInputWithoutBackticks ==
    StripRan => text.plain = StripBackticks(pre.plain)

\* C2: after any highlight() call every span lies within the current plain
\* text; when the call stripped backticks, the spans are those the text had
\* before stripping that cover more than backticks, in the same order and
\* with the same style, each covering the characters it covered, backticks
\* removed; otherwise the spans and the plain text are those of step 2.
C2_SpansReferenceCurrentPlain ==
    calls > 0 =>
      /\ \A k \in 1..Len(text.spans) :
            /\ 0 <= text.spans[k].start
            /\ text.spans[k].start <= text.spans[k].end
            /\ text.spans[k].end <= Len(text.plain)
      /\ IF StripRan
         THEN LET kept == SelectSeq(mid.spans,
                              LAMBDA sp : StripBackticks(Covered(mid, sp)) # <<>>)
              IN /\ Len(text.spans) = Len(kept)
                 /\ \A k \in 1..Len(kept) :
                       /\ text.spans[k].style = kept[k].style
                       /\ Covered(text, text.spans[k])
                            = StripBackticks(Covered(mid, kept[k]))
         ELSE text = mid /\ text.plain = pre.plain

\* C2's case: a call stripped backticks from a text with two or more spans,
\* one of them around a backtick
C2_Witness ==
    /\ StripRan
    /\ Len(text.spans) >= 2
    /\ \E k \in 1..Len(mid.spans) : HasBacktick(Covered(mid, mid.spans[k]))

\* C3: for a text with a backtick span around a known option, highlight()
\* with preserve_backticks off leaves no backtick in the plain text and the
\* option carries the "args" style.
C3_KnownOptionInBackticksStyled ==
    (/\ calls = 1
     /\ ~compiled.none
     /\ ~config.preserve_backticks
     /\ \E bs \in BacktickSpans(pre.plain) :
           Enclosed(pre.plain, bs) \in DOMAIN options.index)
    => /\ ~HasBacktick(text.plain)
       /\ \A bs \in BacktickSpans(pre.plain) :
             Enclosed(pre.plain, bs) \in DOMAIN options.index =>
               \E k \in 1..Len(text.spans) :
                  /\ text.spans[k].style = "argparse.args"
                  /\ Covered(text, text.spans[k]) = Enclosed(pre.plain, bs)

\* C4: with preserve_backticks on, highlight() leaves the plain text as it
\* was, and the content of every backtick span the pattern recognised carries
\* "args" when it is a known option and "syntax" when it is no option token,
\* on exactly the characters between the backticks.
C4_PreserveKeepsPlainAndStyles ==
    (calls > 0 /\ ~compiled.none /\ config.preserve_backticks) =>
      /\ text.plain = pre.plain
      /\ LET ms == FindIter(pre.plain, 0, compiled)
         IN \A k \in 1..Len(ms) :
               ms[k].last = "backtick" =>
                 LET content == Slice(pre.plain, ms[k].bt_content[1],
                                      ms[k].bt_content[2])
                     styled(style) ==
                         [start |-> ms[k].backtick[1] + 1,
                          end |-> ms[k].backtick[2] - 1,
                          style |-> style] \in SpanSet(text)
                 IN /\ content \in DOMAIN options.index => styled("argparse.args")
                    /\ ~IsOptToken(content) => styled("argparse.syntax")

\* C4's case: backticks are preserved around a styled known option
C4_Witness ==
    /\ calls > 0
    /\ config.preserve_backticks
    /\ \E k \in 1..Len(text.spans) :
          /\ text.spans[k].style = "argparse.args"
          /\ text.spans[k].start >= 1
          /\ text.plain[text.spans[k].start] = BT
          /\ text.spans[k].end < Len(text.plain)
          /\ text.plain[text.spans[k].end + 1] = BT

\* C5: a second highlight() call on the text a first call produced leaves the
\* plain text and the spans as they were: no token gets a second span.
C5_SecondCallChangesNothing ==
    calls >= 2 => text.plain = pre.plain /\ text.spans = pre.spans

\* C6: a backtick span whose content is an option token that is no known
\* option gets no span from the built-in step, neither on its content nor on
\* its backticks, whatever precedes it.
C6_UnknownOptionInBackticksUnstyled ==
    (calls = 1 /\ ~compiled.none) =>
      \A bs \in BacktickSpans(pre.plain) :
         (/\ IsOptToken(Enclosed(pre.plain, bs))
          /\ Enclosed(pre.plain, bs) \notin DOMAIN options.index)
         => \A k \in 1..Len(BuiltinSpans) :
               \/ BuiltinSpans[k].end <= bs[1]
               \/ BuiltinSpans[k].start >= bs[2]

----------------------------------------------------------------------------
(* The operations on a parser that the other specifications are made of.    *)

\* the arguments a caller added to p
ArgumentCount(p) ==
    Len(SelectSeq(p.actions, LAMBDA a : a.kind \notin {"help", "parsers"}))

\* add_argument(...) with the declaration d: parser.add_argument(...) puts a
\* positional in the first default group and an option in the second,
\* group.add_argument(...) puts either in the group, here the g-th
AddArgument(d, g) ==
    /\ ArgumentCount(parser) < MaxActions
    /\ g \in {IF Len(d.names) = 1 /\ d.names[1][1] \notin CharSet(parser.prefix_chars)
              THEN 1 ELSE 2} \cup 3..Len(parser.groups)
    /\ ~AddArgumentTo(parser, g, d).raised
    /\ parser' = AddArgumentTo(parser, g, d).parser
    /\ UNCHANGED <<hlvars, config, fmtvars>>

\* parser.add_argument_group(title, inherit=inherit)
AddArgumentGroup(title, inherit) ==
    /\ Len(parser.groups) < 2 + MaxGroups
    /\ parser' = AddGroupTo(parser, title, inherit)
    /\ UNCHANGED <<hlvars, config, fmtvars>>

\* parser.add_subparsers(), or parser.add_subparsers(prog=parser.prog) when
\* prog_given: without a prog argparse renders the help of the parser to make
\* one, which is a format_help() of the parser as it is before the call
AddSubparsers(prog_given) ==
    /\ SubparsersActions(parser) = <<>>
    /\ IF prog_given
       THEN /\ parser' = AddSubparsersTo(parser, parser.prog, config)
            /\ UNCHANGED <<fmtvars, compiled, options>>
       ELSE \E r \in {FormatHelpOf(parser, config, calc_width, compiled, options,
                                   header, custom_sections)} :
               /\ parser' = AddSubparsersTo(parser, RenderedDocument, config)
               /\ calc_width' = r.calc_width
               /\ tables' = r.tables
               /\ usage' = r.usage
               /\ compiled' = r.compiled
               /\ options' = r.options
               /\ sections' = r.sections
               /\ document' = r.document
               /\ UNCHANGED <<header, custom_sections>>
    /\ UNCHANGED <<text, pre, mid, flagged, calls, config, custom_patterns>>

\* subparsers.add_parser(name, prefix_chars=prefix_chars); an exception of
\* the new parser's __init__ leaves nothing registered
AddParser(name, prefix_chars) ==
    /\ SubparsersActions(parser) # <<>>
    /\ LET action == SubparsersActions(parser)[1]
           r == NewSubcommandParser(parser, action, name, prefix_chars)
       IN /\ \/ Len(action.subs) < MaxSubcommands
             \/ \E k \in 1..Len(action.subs) : action.subs[k].name = name
          /\ ~r.raised
          /\ parser' = RegisterSubcommand(parser, name, r.parser)
    /\ UNCHANGED <<hlvars, config, fmtvars>>

\* parser.format_help()
FormatHelp ==
    /\ \E r \in {FormatHelpOf(parser, config, calc_width, compiled, options,
                             header, custom_sections)} :
          /\ calc_width' = r.calc_width
          /\ tables' = r.tables
          /\ usage' = r.usage
          /\ compiled' = r.compiled
          /\ options' = r.options
          /\ sections' = r.sections
          /\ document' = r.document
    /\ UNCHANGED <<header, custom_sections>>
    /\ UNCHANGED <<text, pre, mid, flagged, calls, config, custom_patterns, parser>>

\* no text has been handed to highlight()
InitNoText ==
    /\ text = [plain |-> <<>>, spans |-> <<>>]
    /\ pre = text
    /\ mid = text
    /\ custom_patterns = <<>>

----------------------------------------------------------------------------
(* The specification of the column width: a parser is built, subcommands    *)
(* are registered and the help is rendered.                                 *)

\* the arguments the callers of this specification declare: a lone long
\* option, two option strings with a metavar, a lone long option with a
\* metavar in brackets, an option with suppressed help, a positional
WidthDecls ==
    { Decl(<<<<"-", "-", "a", "b">>>>, <<>>, "text", "store", "None", Unset, Unset),
      Decl(<<<<"-", "b">>, <<"-", "-", "b", "c">>>>, <<"M">>, "text", "store",
           "None", Unset, Unset),
      Decl(<<<<"-", "-", "a", "b", "c", "d", "e", "f">>>>, <<"[", "M", "]">>,
           "text", "store", "None", "True", Unset),
      Decl(<<<<"-", "s">>, <<"-", "-", "s", "s", "s", "s", "s", "s", "s", "s">>>>,
           <<>>, SUPPRESS, "store", "None", Unset, Unset),
      Decl(<<<<"f">>>>, <<>>, "text", "store", "None", Unset, Unset) }

\* the names of the subcommands
SubcommandNames ==
    { <<"a", "b", "c", "d", "e", "f", "a", "b", "c", "d", "e", "f">> }

\* the column widths a caller configures
WidthChoices == {None, <<0>>, <<12>>}

InitWidth ==
    /\ InitHighlighter
    /\ InitFormatter
    /\ InitNoText
    /\ \E w \in WidthChoices : config = [DefaultConfig EXCEPT !.arg_column_width = w]
    /\ \E add_help \in BOOLEAN :
          parser = AddGroupTo(NewParser(<<"p">>, <<"-">>, add_help, "options"),
                              "Options", FALSE)

NextWidth ==
    \/ \E d \in WidthDecls : AddArgument(d, 3)
    \/ \E prog_given \in BOOLEAN : AddSubparsers(prog_given)
    \/ \E name \in SubcommandNames : AddParser(name, <<"-">>)
    \/ FormatHelp

SpecWidth == InitWidth /\ [][NextWidth]_vars

----------------------------------------------------------------------------
(* Properties of the column width.                                          *)

\* the actions the width is measured over: the visible ones found in a
\* group, the subparsers action left out
C7_Measured(p) ==
    {a \in CharSet(GroupActions(p)) : a.help # SUPPRESS /\ a.kind # "parsers"}

\* the names of the subcommands of p
C7_SubcommandNames(p) ==
    UNION {{a.subs[j].name : j \in 1..Len(a.subs)} :
              a \in {b \in CharSet(p.actions) : b.kind = "parsers"}}

\* the invocation as it is rendered: every option string in its tags, joined
\* by ", ", four spaces before a lone "--" option, the tagged metavar after a
\* space; the tagged metavar or uppercased dest for a positional
C7_Rendered(a) ==
    LET metavar == IF a.metavar # <<>>
                   THEN <<"[", "argparse.metavar", "]">> \o a.metavar
                          \o <<"[", "/", "argparse.metavar", "]">>
                   ELSE <<>>
        tagged == [k \in 1..Len(a.option_strings) |->
                      <<"[", "argparse.args", "]">> \o a.option_strings[k]
                        \o <<"[", "/", "argparse.args", "]">>]
        pad == IF Len(a.option_strings) = 1 /\ Len(a.option_strings[1]) >= 2
                  /\ a.option_strings[1][1] = "-" /\ a.option_strings[1][2] = "-"
               THEN <<" ", " ", " ", " ">> ELSE <<>>
    IN IF a.option_strings # <<>>
       THEN pad \o Join(<<",", " ">>, tagged)
              \o (IF a.metavar # <<>> THEN <<" ">> \o metavar ELSE <<>>)
       ELSE IF a.metavar # <<>> THEN metavar
       ELSE IF a.dest # <<SUPPRESS>>
       THEN <<"[", "argparse.metavar", "]">> \o Upper(a.dest)
              \o <<"[", "/", "argparse.metavar", "]">>
       ELSE <<>>

\* max(L + 3, 10), L over the names of the subcommands and the rendered
\* invocations measured once strip_rich_tags has run over them
C7_Width(p) ==
    Max(MaxOf({Len(n) : n \in C7_SubcommandNames(p)}
              \cup {Len(StripRichTags(C7_Rendered(a))) : a \in C7_Measured(p)}) + 3,
        10)

\* the invocation as the option strings joined by ", ", a space and the
\* metavar if there is one; the metavar or uppercased dest for a positional
C7_PlainInvocation(a) ==
    IF a.option_strings # <<>>
    THEN Join(<<",", " ">>, a.option_strings)
           \o (IF a.metavar # <<>> THEN <<" ">> \o a.metavar ELSE <<>>)
    ELSE IF a.metavar # <<>> THEN a.metavar
    ELSE IF a.dest # <<SUPPRESS>> THEN Upper(a.dest)
    ELSE <<>>

\* max(L + 3, 10), L over the names of the subcommands and the lengths of
\* the plain invocations
C7_PlainWidth(p) ==
    Max(MaxOf({Len(n) : n \in C7_SubcommandNames(p)}
              \cup {Len(C7_PlainInvocation(a)) : a \in C7_Measured(p)}) + 3,
        10)

\* C7: with no column width configured, the step that computes the column
\* width (the first rendering that creates a section table) computes
\* max(L + 3, 10), L being the maximum over the length of every subcommand
\* name and the measured length of the rendered invocation of every visible
\* action of a group: a lone "--" option is rendered with four leading
\* spaces, and the length is measured after strip_rich_tags, which counts
\* no bracketed run.
C7_WidthWhenComputed ==
    [][(calc_width = None /\ calc_width' # None)
          => calc_width' = <<C7_Width(parser)>>]_vars

\* C7 as stated: the computed width is max(L + 3, 10) with L over the plain
\* invocations, the option strings joined by ", " and the metavar.
C7_WidthOfPlainInvocations ==
    [][(calc_width = None /\ calc_width' # None)
          => calc_width' = <<C7_PlainWidth(parser)>>]_vars

\* a width above the floor has been computed for a parser with a subcommand
\* and a visible lone "--" option, and it is the width of C7
C7_Witness ==
    /\ config.arg_column_width = None
    /\ calc_width = <<C7_Width(parser)>>
    /\ calc_width[1] > 10
    /\ tables # <<>>
    /\ C7_SubcommandNames(parser) # {}
    /\ \E a \in C7_Measured(parser) :
          Len(a.option_strings) = 1 /\ LiteralAt(a.option_strings[1], 0, <<"-", "-">>)

\* C8: when a column width is configured, 0 included, every section table
\* has that width for its option/command column and no width is computed.
C8_ExplicitWidthUsed ==
    config.arg_column_width # None
        => /\ calc_width = None
           /\ \A k \in 1..Len(tables) : tables[k] = config.arg_column_width

----------------------------------------------------------------------------
(* The specification of the usage text: a parser is built and its help is   *)
(* rendered under a configured maximum width.                               *)

\* a metavar of seventy characters
LongMetavar == [k \in 1..70 |-> "M"]

\* the arguments the callers of this specification declare: a required long
\* option with a metavar, an option with a metavar in brackets, an option
\* with a long metavar, a positional taking any number of values, a
\* positional whose name is "help"
UsageDecls ==
    { Decl(<<<<"-", "-", "b", "c">>>>, <<"M">>, "text", "store", "None", "True",
           Unset),
      Decl(<<<<"-", "x">>>>, <<"[", "M", "]">>, "text", "store", "None", Unset,
           Unset),
      Decl(<<<<"-", "-", "a", "b">>>>, LongMetavar, "text", "store", "None",
           Unset, Unset),
      Decl(<<<<"f">>>>, <<>>, "text", "store", "*", Unset, Unset),
      Decl(<<<<"h", "e", "l", "p">>>>, <<>>, "text", "store", "None", Unset,
           Unset) }

\* the names a caller gives the program
ProgChoices == { <<"p">>, <<"[", "P", "]", "x">>, <<>> }

\* the maximum widths a caller configures
MaxWidthChoices == {None, <<0>>, <<12>>, <<16>>}

InitUsage ==
    /\ InitHighlighter
    /\ InitFormatter
    /\ InitNoText
    /\ \E w \in MaxWidthChoices : config = [DefaultConfig EXCEPT !.max_width = w]
    /\ \E add_help \in BOOLEAN, prog \in ProgChoices :
          parser = NewParser(prog, <<"-">>, add_help, "options")

NextUsage ==
    \/ \E d \in UsageDecls, g \in 1..2 : AddArgument(d, g)
    \/ AddSubparsers(FALSE)
    \/ FormatHelp

SpecUsage == InitUsage /\ [][NextUsage]_vars

----------------------------------------------------------------------------
(* Properties of the usage text.                                            *)

\* the offsets of the line feeds of u, as indices of the sequence
C9_LineFeeds(u) == {k \in 1..Len(u) : u[k] = NL}

\* u spans more than one line and every line after the first begins with
\* exactly n spaces
C9_Wrapped(u, n) ==
    /\ C9_LineFeeds(u) # {}
    /\ \A k \in C9_LineFeeds(u) :
          /\ k + n <= Len(u)
          /\ \A j \in 1..n : u[k + j] = " "
          /\ k + n + 1 <= Len(u) => u[k + n + 1] # " "

\* the length strip_rich_tags leaves of the marked-up "Usage: <prog>", the
\* prog being "program" when the parser has none
C9_PrefixLength(p) ==
    Len(StripRichTags(
            <<"[", "argparse.groups", "]", "U", "s", "a", "g", "e", ":",
              "[", "/", "argparse.groups", "]", " ", "[", "argparse.prog", "]">>
              \o (IF p.prog = <<>> THEN <<"p", "r", "o", "g", "r", "a", "m">>
                  ELSE p.prog)
              \o <<"[", "/", "argparse.prog", "]">>))

\* the usage has a token after the name of the program
C9_HasTokens(p, cfg) ==
    UsageOptionalArgs(p, cfg) \o UsagePositionalArgs(p) \o UsageSubcommands(p) # <<>>

\* the one-line usage of p, measured by strip_rich_tags, is longer than n
C9_Exceeds(p, cfg, n) == Len(StripRichTags(UsageLine(p, cfg))) > n

\* a step that renders the help of the parser as it is before the step
C9_Renders == FormatHelp \/ AddSubparsers(FALSE)

----------------------------------------------------------------------------
(* The specification of the inheritance of groups: groups are declared,     *)
(* arguments are added to them, the subcommand set is attached and          *)
(* subcommand parsers are created.                                          *)

\* the arguments the callers of this specification declare: a counting
\* option spelt with dashes, an option spelt with plus signs, an optional
\* positional, a positional, an option with suppressed help
InheritDecls ==
    { Decl(<<<<"-", "v">>, <<"-", "-", "v", "e", "r", "b", "o", "s", "e">>>>,
           <<>>, "text", "count", "None", Unset, Unset),
      Decl(<<<<"+", "v">>, <<"+", "+", "v", "e", "r", "b", "o", "s", "e">>>>,
           <<>>, "text", "store", "None", Unset, Unset),
      Decl(<<<<"f">>>>, <<>>, "text", "store", "?", Unset, Unset),
      Decl(<<<<"d">>>>, <<>>, "text", "store", "None", Unset, Unset),
      Decl(<<<<"-", "s">>>>, <<>>, SUPPRESS, "store", "None", Unset, Unset) }

\* the titles of the groups a caller declares
GroupTitles == {"Global Options", "Other Options"}

\* the prefix characters a caller hands a parser
PrefixChoices == { <<"-">>, <<"+">> }

InitInherit ==
    /\ InitHighlighter
    /\ InitFormatter
    /\ InitNoText
    /\ config = DefaultConfig
    /\ \E prefix_chars \in PrefixChoices :
          parser = NewParser(<<"p">>, prefix_chars, TRUE, "options")

NextInherit ==
    \/ \E title \in GroupTitles, inherit \in BOOLEAN : AddArgumentGroup(title, inherit)
    \/ \E d \in InheritDecls, g \in 1..(2 + MaxGroups) : AddArgument(d, g)
    \/ AddSubparsers(FALSE)
    \/ \E prefix_chars \in PrefixChoices : AddParser(<<"a", "d", "d">>, prefix_chars)

SpecInherit == InitInherit /\ [][NextInherit]_vars

----------------------------------------------------------------------------
(* Properties of the inheritance of groups.                                 *)

\* the visible actions of the groups of p that are marked inherit and have
\* the title
C10_Marked(p, title) ==
    {a \in UNION {CharSet(p.groups[g].actions) :
                     g \in {h \in 1..Len(p.groups) :
                               p.groups[h].inherit /\ p.groups[h].title = title}} :
        a.help # SUPPRESS}

\* the group of sub holds, for every action the group_info was taken from,
\* an action with the same option strings
C10_Carries(p, group_info, group) ==
    \A k \in 1..Len(group_info.actions) :
       \A a \in C10_Marked(p, group_info.title) :
          ActionInfo(a) = group_info.actions[k]
             => \E j \in 1..Len(group.actions) :
                   group.actions[j].option_strings = a.option_strings

\* C10: every subcommand parser holds, for every group that was marked
\* inherit and held a visible action when the subcommand set was attached, a
\* group with the same title whose actions carry the same option strings.
C10_SubcommandsCarryInheritedGroups ==
    \A a \in CharSet(SubparsersActions(parser)) :
       \A k \in 1..Len(a.subs) :
          \A i \in 1..Len(a.inherited_groups) :
             \E g \in 1..Len(a.subs[k].parser.groups) :
                /\ a.subs[k].parser.groups[g].title = a.inherited_groups[i].title
                /\ C10_Carries(parser, a.inherited_groups[i],
                               a.subs[k].parser.groups[g])

----------------------------------------------------------------------------
(* The specification of the document: a header and custom sections are set  *)
(* on a parser and its help is rendered.                                    *)

\* dict[title] = content on a dict kept as a sequence of [title, content] in
\* insertion order
SetSection(d, title, content) ==
    IF \E k \in 1..Len(d) : d[k].title = title
    THEN [k \in 1..Len(d) |-> IF d[k].title = title
                              THEN [title |-> title, content |-> content]
                              ELSE d[k]]
    ELSE Append(d, [title |-> title, content |-> content])

\* parser.add_header(header)
AddHeader(h) ==
    /\ header' = h
    /\ UNCHANGED <<hlvars, config, parser, calc_width, tables, usage,
                   custom_sections, sections, document>>

\* parser.add_custom_section(title, content); add_examples and add_notes are
\* the same call with the titles "Examples" and "Notes"
AddCustomSection(title, content) ==
    /\ custom_sections' = SetSection(custom_sections, title, content)
    /\ UNCHANGED <<hlvars, config, parser, calc_width, tables, usage, header,
                   sections, document>>

\* parser.with_config(**kwargs): the parser takes the merged Config and a new
\* RichFormatter, which has no header, no custom section, no calculated
\* width and a new highlighter; the patterns the parser holds, which are
\* those of the old highlighter, are set on the new one
WithConfig(kwargs) ==
    /\ config' = Merge(config, kwargs)
    /\ header' = None
    /\ custom_sections' = <<>>
    /\ calc_width' = None
    /\ compiled' = [none |-> TRUE, prog |-> <<>>, parts |-> <<>>]
    /\ options' = [none |-> TRUE, index |-> <<>>]
    /\ UNCHANGED <<text, pre, mid, flagged, calls, custom_patterns, parser,
                   tables, usage, sections, document>>

\* parser.with_theme(theme): a new RichFormatter as above under the same
\* Config; the theme gives the styles their colours, which are rich's
WithTheme ==
    /\ header' = None
    /\ custom_sections' = <<>>
    /\ calc_width' = None
    /\ compiled' = [none |-> TRUE, prog |-> <<>>, parts |-> <<>>]
    /\ options' = [none |-> TRUE, index |-> <<>>]
    /\ UNCHANGED <<text, pre, mid, flagged, calls, config, custom_patterns,
                   parser, tables, usage, sections, document>>

\* parser.add_pattern(pattern, style): dict[pattern] = style on the patterns
\* of the parser and of the highlighter
AddPattern(pattern, style) ==
    /\ custom_patterns' =
          IF \E k \in 1..Len(custom_patterns) : custom_patterns[k].pattern = pattern
          THEN [k \in 1..Len(custom_patterns) |->
                   IF custom_patterns[k].pattern = pattern
                   THEN [pattern |-> pattern, style |-> style]
                   ELSE custom_patterns[k]]
          ELSE Append(custom_patterns, [pattern |-> pattern, style |-> style])
    /\ UNCHANGED <<text, pre, mid, flagged, calls, compiled, options, config,
                   parser, fmtvars>>

\* parser.set_patterns(patterns)
SetPatterns(patterns) ==
    /\ custom_patterns' = patterns
    /\ UNCHANGED <<text, pre, mid, flagged, calls, compiled, options, config,
                   parser, fmtvars>>

\* a parser under the Config cfg with three titled groups of one option each,
\* the first and the third of the same title, a positional added to the
\* parser itself, and the subcommand "add"
DocumentParser(optionals_title, cfg) ==
    LET option(c) == Decl(<<<<"-", c>>>>, <<>>, "text", "store", "None", Unset,
                          Unset)
        p0 == NewParser(<<"p">>, <<"-">>, TRUE, optionals_title)
        p1 == AddArgumentTo(AddGroupTo(p0, "Options", FALSE), 3, option("a")).parser
        p2 == AddArgumentTo(AddGroupTo(p1, "Other", FALSE), 4, option("b")).parser
        p3 == AddArgumentTo(AddGroupTo(p2, "Options", FALSE), 5, option("c")).parser
        p4 == AddArgumentTo(p3, 1, Decl(<<<<"f">>>>, <<>>, "text", "store", "None",
                                        Unset, Unset)).parser
        p5 == AddSubparsersTo(p4, p4.prog, cfg)
        sub == NewSubcommandParser(p5, SubparsersActions(p5)[1],
                                   <<"a", "d", "d">>, <<"-">>).parser
    IN RegisterSubcommand(p5, <<"a", "d", "d">>, sub)

\* the custom sections a caller adds, as <<title, content>>
SectionChoices ==
    { <<"Examples", <<"x">>>>, <<"Examples", <<"y">>>>, <<"Notes", <<"x">>>> }

\* The parser is one without any argument or the parser above, under either
\* title of the default group of the options; it has no description and no
\* epilog, both, or a description of white space only and an epilog; the
\* section gap is negative, zero or the default.
InitDocument ==
    /\ InitHighlighter
    /\ InitFormatter
    /\ InitNoText
    /\ \E n \in {0 - 2, 0, 1} : config = [DefaultConfig EXCEPT !.section_gap = n]
    /\ \E p \in { NewParser(<<"p">>, <<"-">>, FALSE, "options"),
                  DocumentParser("options", config),
                  DocumentParser("optional arguments", config) },
          t \in { <<None, None>>, <<<<"d">>, <<"e">>>>, <<<<" ">>, <<"e">>>> } :
          parser = [p EXCEPT !.description = t[1], !.epilog = t[2]]

NextDocument ==
    \/ AddHeader(<<"H">>)
    \/ \E s \in SectionChoices : AddCustomSection(s[1], s[2])
    \/ FormatHelp

SpecDocument == InitDocument /\ [][NextDocument]_vars

----------------------------------------------------------------------------
(* Properties of the document.                                              *)

\* the place of a kind of section in the order C11 states
C11_Rank(kind) ==
    CASE kind = "header" -> 1
      [] kind = "usage" -> 2
      [] kind = "description" -> 3
      [] kind = "subcommands" -> 4
      [] kind = "group" -> 5
      [] kind = "custom" -> 6
      [] kind = "epilog" -> 7

\* the titles of the sections of secs that are of the kind, in their order
C11_Titles(secs, kind) ==
    LET of_kind == SelectSeq(secs, LAMBDA sec : sec.kind = kind)
    IN [k \in 1..Len(of_kind) |-> of_kind[k].title]

\* the titles are titles of groups of p, in the order of the groups
C11_InGroupOrder(titles, p) ==
    \E f \in [1..Len(titles) -> 1..Len(p.groups)] :
       /\ \A k \in 1..Len(titles) : p.groups[f[k]].title = titles[k]
       /\ \A j, k \in 1..Len(titles) : j < k => f[j] < f[k]

\* the sections secs of a document of the parser p with the header hdr and
\* the custom sections custom are in the order C11 states
C11_InOrder(secs, p, hdr, custom) ==
    /\ \A j, k \in 1..Len(secs) :
          j < k => /\ C11_Rank(secs[j].kind) <= C11_Rank(secs[k].kind)
                   /\ secs[j].kind = secs[k].kind => secs[j].kind \in {"group", "custom"}
    /\ (\E k \in 1..Len(secs) : secs[k].kind = "header") <=> hdr # <<>>
    /\ \E k \in 1..Len(secs) : secs[k].kind = "usage"
    /\ (\E k \in 1..Len(secs) : secs[k].kind = "description") <=> p.description # <<>>
    /\ (\E k \in 1..Len(secs) : secs[k].kind = "subcommands")
          <=> \E a \in CharSet(p.actions) : a.kind = "parsers" /\ a.subs # <<>>
    /\ (\E k \in 1..Len(secs) : secs[k].kind = "epilog") <=> p.epilog # <<>>
    /\ C11_InGroupOrder(C11_Titles(secs, "group"), p)
    /\ C11_Titles(secs, "custom") = [k \in 1..Len(custom) |-> custom[k].title]

\* the titles of the custom sections, in the order the dict holds them
C11_CustomTitles(custom) == [k \in 1..Len(custom) |-> custom[k].title]

\* C11: format_help() emits the sections in the order header, usage,
\* description, subcommand table, tables of the argument groups in the order
\* of the parser's groups, custom sections, epilog; a section that is absent
\* is left out without changing the order of the others; and a custom
\* section takes its place when its title is first inserted: a title set
\* again keeps its place, a new title goes last.
C11_SectionsInFixedOrder ==
    [][/\ FormatHelp => C11_InOrder(sections', parser, header, custom_sections)
       /\ \A s \in SectionChoices :
             AddCustomSection(s[1], s[2]) =>
                C11_CustomTitles(custom_sections') =
                   IF \E k \in 1..Len(custom_sections) :
                         custom_sections[k].title = s[1]
                   THEN C11_CustomTitles(custom_sections)
                   ELSE Append(C11_CustomTitles(custom_sections), s[1])]_vars

\* a document with every kind of section has been rendered: two group tables
\* and two custom sections, "Notes" inserted before "Examples"
C11_Witness ==
    /\ [k \in 1..Len(sections) |-> sections[k].kind] =
          <<"header", "usage", "description", "subcommands", "group", "group",
            "custom", "custom", "epilog">>
    /\ C11_Titles(sections, "group") = <<"Options", "Other">>
    /\ C11_Titles(sections, "custom") = <<"Notes", "Examples">>
    /\ custom_sections = << [title |-> "Notes", content |-> <<"x">>],
                            [title |-> "Examples", content |-> <<"y">>] >>

\* the texts of the sections of secs that are not blank, each without its
\* trailing white space
C12_Parts(secs) ==
    LET kept == SelectSeq(secs, LAMBDA sec :
                    \E k \in 1..Len(sec.text) : sec.text[k] \notin {" ", NL})
    IN [k \in 1..Len(kept) |-> RStrip(kept[k].text, {" ", NL})]

\* the parts with n line feeds between every two consecutive ones
RECURSIVE C12_Separated(_, _)
C12_Separated(parts, n) ==
    IF parts = <<>> THEN <<>>
    ELSE IF Len(parts) = 1 THEN parts[1]
    ELSE parts[1] \o [k \in 1..n |-> NL] \o C12_Separated(Tail(parts), n)

\* C12: the document format_help() returns is the sections that are not
\* blank, each without its trailing white space, with exactly
\* section_gap + 1 line feeds (none when that is negative) between every two
\* consecutive ones, that is section_gap blank lines; a section that is
\* empty or white space only contributes neither text nor a gap.
C12_SectionGapLineFeeds ==
    [][FormatHelp =>
          document' = C12_Separated(C12_Parts(sections'),
                                    IF config.section_gap + 1 > 0
                                    THEN config.section_gap + 1 ELSE 0)]_vars

\* C12 as stated: every two consecutive sections that are not blank are
\* separated by exactly section_gap + 1 blank lines, which is
\* section_gap + 2 line feeds.
C12_SectionGapBlankLines ==
    [][FormatHelp =>
          document' = C12_Separated(C12_Parts(sections'),
                                    config.section_gap + 2)]_vars

\* under the default gap a document has been rendered of a parser whose
\* description is white space only: the header, the usage and the epilog
\* are one blank line apart and the description has left nothing
C12_Witness ==
    /\ config.section_gap = 1
    /\ parser.description = <<" ">>
    /\ [k \in 1..Len(sections) |-> sections[k].kind] =
          <<"header", "usage", "description", "epilog">>
    /\ document = <<"H", NL, NL>> \o usage \o <<NL, NL, "e">>

----------------------------------------------------------------------------
(* The specification of the options: arguments are added to a parser that   *)
(* starts without any, and highlight() is called on a text in between.      *)

\* The text is made of an option that will declare a metavar, an option that
\* will declare none, an option nobody declares, a plain word, a plain word
\* in backticks and the space.  The custom patterns are none, or a literal,
\* a pattern re.compile rejects and another literal, in this order.
InitOptions ==
    /\ InitHighlighter
    /\ InitFormatter
    /\ \E n \in 0..MaxTokens :
         \E ws \in [1..n -> { <<"-", "a">>, <<"-", "b">>, <<"-", "z">>, <<"x">>,
                              <<BT, "x", BT>>, <<" ">> }] :
             /\ text = MarkupText(ws, 0)
             /\ pre = text
             /\ mid = text
    /\ config = DefaultConfig
    /\ custom_patterns \in
          { <<>>,
            << [pattern |-> [kind |-> "literal", lit |-> <<"x">>],
                style |-> "argparse.custom"],
               [pattern |-> [kind |-> "malformed"], style |-> "argparse.custom"],
               [pattern |-> [kind |-> "literal", lit |-> <<"-">>],
                style |-> "argparse.other"] >> }
    /\ parser = NewParser(<<"p">>, <<"-">>, FALSE, "options")

\* parser.add_argument("-a", metavar="M") and parser.add_argument("-b",
\* action="store_true")
NextOptions ==
    \/ Highlight
    \/ AddArgument(Decl(<<<<"-", "a">>>>, <<"M">>, "text", "store", "None", Unset,
                        Unset), 2)
    \/ AddArgument(Decl(<<<<"-", "b">>>>, <<>>, "text", "store_true", "None",
                        Unset, Unset), 2)

SpecOptions == InitOptions /\ [][NextOptions]_vars

----------------------------------------------------------------------------
(* Properties of highlight() on a parser that is being built.               *)

\* no group of p holds an action
C13_NoActions(p) == \A g \in 1..Len(p.groups) : p.groups[g].actions = <<>>

\* C13: while no group of the parser holds an action highlight() leaves the
\* text, plain and spans, as it is, custom patterns included, and leaves the
\* highlighter without a compiled pattern and without an index; a
\* highlight() called once a group holds an action leaves a compiled
\* pattern and an index, which the first such call makes of the parser as it
\* is then, and leaves the text as the whole pass styles it.
C13_LazyInitialisation ==
    [][Highlight =>
          IF C13_NoActions(parser)
          THEN /\ text' = text
               /\ compiled'.none
               /\ options'.none
          ELSE /\ ~compiled'.none
               /\ ~options'.none
               /\ compiled.none =>
                     /\ compiled'.prog = parser.prog
                     /\ \A a \in CharSet(parser.actions) :
                           \A k \in 1..Len(a.option_strings) :
                              a.option_strings[k] \in DOMAIN options'.index
               /\ text' = HighlightStep3(
                              HighlightSteps12(text, custom_patterns, compiled',
                                               options'.index),
                              config.preserve_backticks)]_vars

\* highlight() was called twice on a text that holds the literal of a custom
\* pattern and a known option: the first call, made before any argument was
\* added, left no span; the second compiled the pattern and styled the option
C13_Witness ==
    /\ calls = 2
    /\ custom_patterns # <<>>
    /\ pre.plain = <<"x", "-", "a">>
    /\ pre.spans = <<>>
    /\ ~compiled.none
    /\ \E k \in 1..Len(text.spans) :
          text.spans[k] = [start |-> 1, end |-> 3, style |-> "argparse.args"]

\* the patterns re.compile accepts, in their order
C14_WellFormed(patterns) ==
    SelectSeq(patterns, LAMBDA p : p.pattern.kind # "malformed")

\* C14: a malformed custom pattern does not end highlight(): the call leaves
\* the text as the pass without the malformed patterns leaves it, that is
\* every other custom pattern, before and after, has put a span on each of
\* its matches and the built-in step and the removal of the backticks have
\* run.
C14_MalformedPatternSkipped ==
    [][(Highlight /\ ~C13_NoActions(parser)) =>
          /\ text' = HighlightStep3(
                         HighlightSteps12(text, C14_WellFormed(custom_patterns),
                                          compiled', options'.index),
                         config.preserve_backticks)
          /\ \A k \in 1..Len(custom_patterns) :
                custom_patterns[k].pattern.kind = "literal" =>
                   \A j \in 0..Len(text.plain) :
                      LiteralAt(text.plain, j, custom_patterns[k].pattern.lit) =>
                         \E i \in 1..Len(mid'.spans) :
                            mid'.spans[i] =
                               [start |-> j,
                                end |-> j + Len(custom_patterns[k].pattern.lit),
                                style |-> custom_patterns[k].style]]_vars

\* highlight() ran with a malformed pattern between two others on a text
\* with a word in backticks and a known option: both other patterns and the
\* built-in step left their spans and the backticks are gone
C14_Witness ==
    /\ calls = 1
    /\ \E k \in 1..Len(custom_patterns) : custom_patterns[k].pattern.kind = "malformed"
    /\ pre.plain = <<BT, "x", BT, " ", "-", "a">>
    /\ flagged
    /\ \A k \in 1..Len(text.plain) : text.plain[k] # BT
    /\ \A style \in {"argparse.custom", "argparse.other", "argparse.syntax",
                     "argparse.args"} :
          \E k \in 1..Len(text.spans) : text.spans[k].style = style

\* the groups argparse creates with the parser, the first for the positionals
\* and the second for the options, that hold an argument the caller added
\* whose help is not suppressed
C15_DefaultGroupsInUse(p) ==
    {g \in 1..2 : \E a \in CharSet(p.groups[g].actions) :
                     a.kind \notin {"help", "parsers"} /\ a.help # SUPPRESS}

\* C15: format_help() of a parser with an argument added to one of its
\* default groups does not return a document without a table of that group,
\* which is the table the argument would be in.
C15_DefaultGroupArgumentNotDropped ==
    [][FormatHelp =>
          \A g \in C15_DefaultGroupsInUse(parser) :
             \E k \in 1..Len(sections') :
                /\ sections'[k].kind = "group"
                /\ sections'[k].title = parser.groups[g].title]_vars

----------------------------------------------------------------------------
(* The specification of the configuring calls: a header, a custom section   *)
(* and patterns are set on a parser, its configuration and its theme are    *)
(* changed and its help is rendered, in any order.                          *)

InitConfigure ==
    /\ InitHighlighter
    /\ InitFormatter
    /\ InitNoText
    /\ config = DefaultConfig
    /\ parser = NewParser(<<"p">>, <<"-">>, TRUE, "options")

\* add_header("H"), add_examples("x"), add_notes("x"), with_config(indent=4)
\* or with_config(section_gap=0), with_theme("default"),
\* add_pattern("a", "custom"), set_patterns({}) or
\* set_patterns({"b": "custom"}), format_help()
NextConfigure ==
    \/ AddHeader(<<"H">>)
    \/ \E title \in {"Examples", "Notes"} : AddCustomSection(title, <<"x">>)
    \/ \E kwargs \in {[indent |-> 4], [section_gap |-> 0]} : WithConfig(kwargs)
    \/ WithTheme
    \/ AddPattern([kind |-> "literal", lit |-> <<"a">>], "argparse.custom")
    \/ \E patterns \in { <<>>, << [pattern |-> [kind |-> "literal", lit |-> <<"b">>],
                                   style |-> "argparse.custom"] >> } :
          SetPatterns(patterns)
    \/ FormatHelp

SpecConfigure == InitConfigure /\ [][NextConfigure]_vars

----------------------------------------------------------------------------
(* Properties of the configuring calls.                                     *)

\* a step of with_config, with_theme, add_pattern or set_patterns
C16_ConfigCall ==
    \/ \E kwargs \in {[indent |-> 4], [section_gap |-> 0]} : WithConfig(kwargs)
    \/ WithTheme
    \/ AddPattern([kind |-> "literal", lit |-> <<"a">>], "argparse.custom")
    \/ \E patterns \in { <<>>, << [pattern |-> [kind |-> "literal", lit |-> <<"b">>],
                                   style |-> "argparse.custom"] >> } :
          SetPatterns(patterns)

\* C16: a header and a custom section that were set are in the document of
\* the next format_help() whatever with_config, with_theme, add_pattern and
\* set_patterns calls were made in between: such a call leaves the header
\* and the custom sections of the parser as they are, and format_help()
\* renders the header and every custom section the parser has.
C16_ContentSurvivesConfigCalls ==
    [][/\ C16_ConfigCall => header' = header /\ custom_sections' = custom_sections
       /\ FormatHelp =>
             /\ header # <<>> => \E k \in 1..Len(sections') : sections'[k].kind = "header"
             /\ \A j \in 1..Len(custom_sections) :
                   \E k \in 1..Len(sections') :
                      /\ sections'[k].kind = "custom"
                      /\ sections'[k].title = custom_sections[j].title]_vars

----------------------------------------------------------------------------
(* Properties of the usage text under no_wrap_usage.                        *)

\* C17: while no_wrap_usage is on, as it is by default, the usage text
\* format_help() builds is on a single line however long it is.
C17_UsageOnOneLine ==
    config.no_wrap_usage => \A k \in 1..Len(usage) : usage[k] # NL

----------------------------------------------------------------------------
(* The specification of the subcommands' configuration: the subcommand set  *)
(* is attached to a parser and subcommand parsers are created, some with a  *)
(* config argument or a direct parameter.                                   *)

\* subparsers.add_parser(name, config=given[1], **kwargs), config being left
\* out when given is None
AddParserConfigured(name, given, kwargs) ==
    /\ SubparsersActions(parser) # <<>>
    /\ \E action \in {SubparsersActions(parser)[1]} :
         \E r \in {NewSubcommandParser(parser, action, name, parser.prefix_chars)} :
            /\ \/ Len(action.subs) < MaxSubcommands
               \/ \E k \in 1..Len(action.subs) : action.subs[k].name = name
            /\ ~r.raised
            /\ parser' = RegisterSubcommand(parser, name,
                            [r.parser EXCEPT !.config =
                                SubcommandConfig(action.parent_config, given,
                                                 kwargs)])
    /\ UNCHANGED <<hlvars, config, fmtvars>>

\* The parser is created with config=Config() or config=Config(indent=3).
InitSubcommand ==
    /\ InitHighlighter
    /\ InitFormatter
    /\ InitNoText
    /\ \E n \in {2, 3} : config = [DefaultConfig EXCEPT !.indent = n]
    /\ parser = NewParser(<<"p">>, <<"-">>, TRUE, "options")

\* add_subparsers(), add_parser("add") with config left out or
\* config=Config(indent=7) and with indent left out or indent=9,
\* with_config(max_width=12) or with_config(indent=5), format_help()
NextSubcommand ==
    \/ \E prog_given \in BOOLEAN : AddSubparsers(prog_given)
    \/ \E given \in {None, <<[DefaultConfig EXCEPT !.indent = 7]>>},
          fields \in SUBSET {"indent"} :
          AddParserConfigured(<<"a", "d", "d">>, given, [f \in fields |-> 9])
    \/ \E kwargs \in {[max_width |-> <<12>>], [indent |-> 5]} : WithConfig(kwargs)
    \/ FormatHelp

SpecSubcommand == InitSubcommand /\ [][NextSubcommand]_vars

----------------------------------------------------------------------------
(* Properties of the subcommands' configuration.                            *)

\* the _config of the subcommand parser "add" of p
C18_ConfigOfAdd(p) ==
    LET a == SubparsersActions(p)[1]
        k == CHOOSE k \in 1..Len(a.subs) : a.subs[k].name = <<"a", "d", "d">>
    IN a.subs[k].parser.config

\* C18: a subcommand parser created without a config argument and without
\* any other override has the very Config object of its parent as its
\* _config, and one created with a config argument has that Config.
C18_SubcommandSharesConfig ==
    [][\A given \in {None, <<[DefaultConfig EXCEPT !.indent = 7]>>} :
          /\ AddParserConfigured(<<"a", "d", "d">>, None, <<>>) =>
                /\ C18_ConfigOfAdd(parser').object = "parent"
                /\ C18_ConfigOfAdd(parser').value = config
          /\ (given # None
              /\ AddParserConfigured(<<"a", "d", "d">>, given, <<>>)) =>
                /\ C18_ConfigOfAdd(parser').object = "given"
                /\ C18_ConfigOfAdd(parser').value = given[1]]_vars

\* the span of the white-space-separated token that follows offset e of s,
\* NoSpan when white space does not follow or nothing follows it
C19_Following(s, e) ==
    LET ws == RunEnd(s, e, "space")
        mv == RunEnd(s, ws, "nonspace")
    IN IF ws > e /\ mv > ws THEN <<ws, mv>> ELSE NoSpan

\* the spans step 2 appended to the text t1 that step 1 left, t2 being the
\* text step 2 left
C19_Appended(t1, t2) == SubSeq(t2.spans, Len(t1.spans) + 1, Len(t2.spans))

\* no span of spans overlaps the span sp
C19_Clear(spans, sp) ==
    \A k \in 1..Len(spans) : spans[k].end <= sp[1] \/ spans[k].start >= sp[2]

\* C19: for every match of the option alternative in the text handed to
\* highlight(): when the token is a key of the index the built-in step
\* styles it "args" and styles the token that follows it "metavar" exactly
\* when there is one and the indexed action declares a metavar; when the
\* token is not a key the built-in step puts no style on the token nor on
\* the token that follows it.
C19_OptionTokenStyles ==
    [][(Highlight /\ ~compiled'.none) =>
          \A m \in CharSet(FindIter(text.plain, 0, compiled')) :
             m.args # NoSpan =>
                \E appended \in {C19_Appended(
                                     ApplyCustomPatterns(text, custom_patterns),
                                     mid')} :
                   \E fol \in {C19_Following(text.plain, m.args[2])} :
                      \E opt \in {Slice(text.plain, m.args[1], m.args[2])} :
                         IF opt \in DOMAIN options'.index
                         THEN /\ [start |-> m.args[1], end |-> m.args[2],
                                  style |-> "argparse.args"] \in CharSet(appended)
                              /\ (\E k \in 1..Len(appended) :
                                     /\ appended[k].style = "argparse.metavar"
                                     /\ appended[k].end > m.args[2]
                                     /\ fol # NoSpan => appended[k].start < fol[2])
                                 <=> (/\ fol # NoSpan
                                      /\ options'.index[opt].metavar # <<>>
                                      /\ [start |-> fol[1], end |-> fol[2],
                                          style |-> "argparse.metavar"]
                                            \in CharSet(appended))
                         ELSE /\ C19_Clear(appended, m.args)
                              /\ fol # NoSpan => C19_Clear(appended, fol)]_vars

\* highlight() ran on "-a x" with -a and -b known, -a declaring a
\* metavar: -a is styled "args" and x "metavar"
C19_Witness ==
    /\ calls = 1
    /\ pre.plain = <<"-", "a", " ", "x">>
    /\ DOMAIN options.index = {<<"-", "a">>, <<"-", "b">>}
    /\ C19_Appended(ApplyCustomPatterns(pre, custom_patterns), mid) =
          << [start |-> 0, end |-> 2, style |-> "argparse.args"],
             [start |-> 3, end |-> 4, style |-> "argparse.metavar"] >>

\* C20: after a highlight() call that compiled a regex, every whole-word
\* occurrence of the program name in the text handed to the call carries an
\* "argparse.prog" span, an occurrence that directly follows an option token
\* included.  Stated for texts without a backtick, where only the option
\* alternative can take the place of the program-name alternative.
C20_ProgNameNeverShadowed ==
    (calls > 0 /\ ~compiled.none /\ ~HasBacktick(pre.plain)) =>
       \A i \in 0..(Len(pre.plain) - 1) :
          WordAt(pre.plain, i, compiled.prog) =>
             [start |-> i, end |-> i + Len(compiled.prog),
              style |-> "argparse.prog"] \in SpanSet(mid)

\* a match of the backtick alternative in the plain text s was styled by the
\* built-in step: its content is a key of the index or is not option-like
C21_BacktickSpanStyled(s, c, index) ==
    \E m \in CharSet(FindIter(s, 0, c)) :
       /\ m.last = "backtick"
       /\ \E content \in {Slice(s, m.bt_content[1], m.bt_content[2])} :
             content \in DOMAIN index \/ ~IsOptToken(content)

\* C21: a highlight() call changes the plain content exactly when
\* preserve_backticks is off and the built-in step styled at least one
\* backtick span; then no backtick is left in the text, and otherwise the
\* plain content is the one handed to the call, backticks included.
C21_PlainChangesIffStripped ==
    [][Highlight =>
          \E stripped \in {/\ ~compiled'.none
                           /\ ~config.preserve_backticks
                           /\ C21_BacktickSpanStyled(text.plain, compiled',
                                                     options'.index)} :
             /\ (text'.plain # text.plain) <=> stripped
             /\ stripped => ~HasBacktick(text'.plain)
             /\ ~stripped => text'.plain = text.plain]_vars

\* highlight() ran on "`-z` `x`" with -z unknown and preserve_backticks off:
\* `x` was styled and the backticks around -z went too
C21_Witness ==
    /\ calls = 1
    /\ ~config.preserve_backticks
    /\ pre.plain = <<BT, "-", "z", BT, " ", BT, "x", BT>>
    /\ text.plain = <<"-", "z", " ", "x">>

\* highlight() ran on "`-z`" with -z unknown and preserve_backticks off: the
\* text keeps its backticks
C21_WitnessUnchanged ==
    /\ calls = 1
    /\ ~config.preserve_backticks
    /\ pre.plain = <<BT, "-", "z", BT>>
    /\ text.plain = pre.plain

----------------------------------------------------------------------------
(* Subcommands that declare options of their own: a parser gets its         *)
(* subcommands, the subcommand parser "add" gets an option, the help is      *)
(* rendered and highlight() is called on a text that names the option.      *)

\* sub.add_argument(...) with the declaration d, sub being the subcommand
\* parser registered under name
AddSubcommandArgument(name, d) ==
    /\ SubparsersActions(parser) # <<>>
    /\ \E action \in {SubparsersActions(parser)[1]} :
         \E k \in 1..Len(action.subs) :
            /\ action.subs[k].name = name
            /\ ArgumentCount(action.subs[k].parser) < MaxActions
            /\ \E r \in {AddArgumentTo(action.subs[k].parser, 2, d)} :
                  /\ ~r.raised
                  /\ parser' = RegisterSubcommand(parser, name, r.parser)
    /\ UNCHANGED <<hlvars, config, fmtvars>>

\* NeonArgumentParser(prog="p") or NeonArgumentParser(prog="p",
\* add_help=False); the text names the option -s, alone or after -h
InitNested ==
    /\ InitHighlighter
    /\ InitFormatter
    /\ \E ws \in { <<<<"-", "s">>>>, <<<<"-", "h">>, <<" ">>, <<"x">>, <<" ">>, <<"-", "s">>>> } :
          /\ text = MarkupText(ws, 0)
          /\ pre = text
          /\ mid = text
    /\ config = DefaultConfig
    /\ custom_patterns = <<>>
    /\ \E add_help \in BOOLEAN :
          parser = NewParser(<<"p">>, <<"-">>, add_help, "options")

\* add_subparsers() or add_subparsers(prog="p"), add_parser("add"),
\* add_argument("-s") or add_argument("-t", metavar="M") on the subcommand
\* parser, format_help(), highlight(text)
NextNested ==
    \/ \E prog_given \in BOOLEAN : AddSubparsers(prog_given)
    \/ AddParser(<<"a", "d", "d">>, <<"-">>)
    \/ \E d \in {Decl(<<<<"-", "s">>>>, <<>>, "text", "store_true", "None", Unset,
                      Unset),
                 Decl(<<<<"-", "t">>>>, <<"M">>, "text", "store", "None", Unset,
                      Unset)} :
          AddSubcommandArgument(<<"a", "d", "d">>, d)
    \/ FormatHelp
    \/ Highlight

SpecNested == InitNested /\ [][NextNested]_vars

----------------------------------------------------------------------------
(* Properties of the option index.                                          *)

\* the option strings of every action of p, in its flat list or in a group,
\* and of every subcommand parser reachable from p
RECURSIVE C22_OptionStrings(_)
C22_OptionStrings(p) ==
    UNION { CharSet(a.option_strings) \cup
            (IF a.kind = "parsers"
             THEN UNION {C22_OptionStrings(a.subs[k].parser) : k \in 1..Len(a.subs)}
             ELSE {}) :
            a \in CharSet(p.actions) \cup CharSet(GroupActions(p)) }

\* C22: after a format_help() of a parser that is ready (a group holds an
\* action), with dynamic formatting on, the keys of the option index are the
\* option strings of every action of the parser and of every subcommand
\* parser reachable from it.
C22_IndexCoversSubcommands ==
    [][(FormatHelp /\ config.dyn_format /\ InitializationComplete(parser)) =>
          /\ ~options'.none
          /\ DOMAIN options'.index = C22_OptionStrings(parser)]_vars

\* C23: a highlight() call on a highlighter that holds a compiled pattern
\* keeps it, and one that holds a non-empty option index keeps it too; an
\* option token of the text that is not a key of that index gets no style
\* from the built-in step, whether or not the parser declares it by now.
C23_BuiltOnceThenStale ==
    [][Highlight =>
          /\ ~compiled.none => compiled' = compiled
          /\ (~options.none /\ DOMAIN options.index # {}) =>
                /\ options' = options
                /\ \A m \in CharSet(FindIter(text.plain, 0, compiled)) :
                      (/\ m.args # NoSpan
                       /\ Slice(text.plain, m.args[1], m.args[2])
                             \notin DOMAIN options.index) =>
                         C19_Clear(C19_Appended(
                                       ApplyCustomPatterns(text, custom_patterns),
                                       mid'),
                                   m.args)]_vars

\* -a was declared, highlight() ran, -b was declared and highlight() ran
\* again on the text "-b": the index still holds -a alone and -b is not
\* styled
C23_Witness ==
    /\ calls = 2
    /\ {<<"-", "a">>, <<"-", "b">>} \subseteq OptionStringsOf(parser)
    /\ DOMAIN options.index = {<<"-", "a">>}
    /\ pre.plain = <<"-", "b">>
    /\ custom_patterns = <<>>
    /\ mid.spans = <<>>

\* C24: with no column width configured, every section table a format_help()
\* makes has the width computed from the parser as it is at that call, also
\* when an action or a subcommand was added since the render before.
C24_WidthRecomputedEachRender ==
    [][(FormatHelp /\ config.arg_column_width = None) =>
          \A k \in 1..Len(tables') : tables'[k] = <<C7_Width(parser)>>]_vars

\* the token of the usage line for the action a with option strings: the
\* first option string and the metavar if there is one, in angle brackets
\* when the option is required and debug is on, in square brackets otherwise
C25_OptionToken(a, cfg) ==
    LET body == Styled("argparse.args", a.option_strings[1]) \o
                (IF a.metavar # <<>>
                 THEN <<" ">> \o Styled("argparse.metavar", a.metavar)
                 ELSE <<>>)
    IN IF a.required /\ cfg.debug THEN <<"<">> \o body \o <<">">>
       ELSE <<BS, "[">> \o body \o <<"]">>

\* the token of the usage line for the positional a: [X] for a single
\* optional value, [X ...] for zero or more, X [X ...] for one or more, X
\* otherwise, X being the metavar or the upper-cased destination
C25_PositionalToken(a) ==
    LET x == Styled("argparse.metavar",
                    IF a.metavar # <<>> THEN a.metavar ELSE Upper(a.dest))
        dots == Styled("argparse.text", <<".", ".", ".">>)
    IN IF a.nargs = "?" THEN <<BS, "[">> \o x \o <<"]">>
       ELSE IF a.nargs = "*" THEN <<BS, "[">> \o x \o <<" ">> \o dots \o <<"]">>
       ELSE IF a.nargs = "+"
       THEN x \o <<" ", BS, "[">> \o x \o <<" ">> \o dots \o <<"]">>
       ELSE x

\* the usage line of C25 for the parser p
C25_Line(p, cfg) ==
    LET acts == SelectSeq(p.actions, LAMBDA a : a.kind # "parsers")
        with_options == SelectSeq(acts, LAMBDA a : a.option_strings # <<>>)
        positionals == SelectSeq(acts, LAMBDA a : a.option_strings = <<>>)
    IN Join(<<" ">>,
            UsagePrefixParts(p)
            \o [k \in 1..Len(with_options) |-> C25_OptionToken(with_options[k], cfg)]
            \o [k \in 1..Len(positionals) |-> C25_PositionalToken(positionals[k])]
            \o (IF \E k \in 1..Len(p.actions) : p.actions[k].kind = "parsers"
                THEN <<Styled("argparse.args", <<"c", "o", "m", "m", "a", "n", "d">>)
                         \o <<" ">> \o Styled("argparse.text", <<".", ".", ".">>)>>
                ELSE <<>>))

\* C25: a usage text that format_help() leaves on one line is "Usage: <prog>",
\* a token for every action with option strings, a token for every
\* positional and "command ..." when there is a subparsers action, in this
\* order and separated by single spaces, with the tokens bracketed as C25
\* says.
C25_UsageLineTokens ==
    [][(FormatHelp /\ C9_LineFeeds(usage') = {}) =>
          usage' = C25_Line(parser, config)]_vars

----------------------------------------------------------------------------
(* The help cell of an action: RichFormatter._format_action_help.  A help   *)
(* text, a default and a choice are named by one string each; the           *)
(* placeholders %(default)s and %(choices)s are one element of a text.      *)

\* the characters of the help text, or of str(v) for a default or a choice v,
\* that the model names by the string v
Chars(v) ==
    CASE v = "None" -> <<>>
      [] v = "text" -> <<"t", "e", "x", "t">>
      [] v = "see %(default)s" -> <<"s", "e", "e", " ", "%(default)s">>
      [] v = "of %(choices)s" -> <<"o", "f", " ", "%(choices)s">>
      [] v = "%(default)s of %(choices)s" ->
            <<"%(default)s", " ", "o", "f", " ", "%(choices)s">>
      [] v = "False" -> <<"F", "a", "l", "s", "e">>
      [] OTHER -> <<v>>

\* A help text to which the default is appended whenever there is one, the
\* placeholder being replaced as well.
ActionHelpMarkupAppending(action) ==
    LET replace(s, old, new) ==
            Flatten([k \in 1..Len(s) |-> IF s[k] = old THEN new ELSE <<s[k]>>])
        with_default(help_text) ==
            IF action.default # "None" /\ action.default # SUPPRESS
            THEN replace(help_text, "%(default)s",
                         Styled("argparse.default", Chars(action.default)))
                 \o <<" ">> \o
                 Styled("argparse.default",
                        <<"(", "d", "e", "f", "a", "u", "l", "t", ":", " ">>
                        \o Chars(action.default) \o <<")">>)
            ELSE help_text
    IN IF Chars(action.help) = <<>> THEN <<>>
       ELSE with_default(Chars(action.help))

\* help_text of _format_action_help when the dynamic formatting takes it: the
\* help with the default and the choices put in
ActionHelpMarkup(action) ==
    LET replace(s, old, new) ==
            Flatten([k \in 1..Len(s) |-> IF s[k] = old THEN new ELSE <<s[k]>>])
        with_default(help_text) ==
            IF action.default # "None" /\ action.default # SUPPRESS
            THEN IF "%(default)s" \notin CharSet(help_text)
                 THEN help_text \o <<" ">> \o
                      Styled("argparse.default",
                             <<"(", "d", "e", "f", "a", "u", "l", "t", ":", " ">>
                             \o Chars(action.default) \o <<")">>)
                 ELSE replace(help_text, "%(default)s",
                              Styled("argparse.default", Chars(action.default)))
            ELSE help_text
        with_choices(help_text) ==
            LET choices_str ==
                    Join(<<",", " ">>,
                         [k \in 1..Len(action.choices) |-> Chars(action.choices[k])])
            IN IF action.choices # <<>>
               THEN IF "%(choices)s" \notin CharSet(help_text)
                    THEN help_text \o <<" ">> \o
                         Styled("argparse.metavar",
                                <<"(", "c", "h", "o", "i", "c", "e", "s", ":", " ">>
                                \o choices_str \o <<")">>)
                    ELSE replace(help_text, "%(choices)s",
                                 Styled("argparse.metavar", choices_str))
               ELSE help_text
    IN IF Chars(action.help) = <<>> THEN <<>>
       ELSE with_choices(with_default(Chars(action.help)))

\* Text.from_markup(s) of a markup string whose tags are those Styled makes:
\* the characters outside the tags, and a span for every tag; open holds the
\* tags not closed yet, the last one first to close
RECURSIVE FromMarkup(_, _, _, _)
FromMarkup(s, i, t, open) ==
    IF i > Len(s) THEN t
    ELSE IF s[i] = "[" /\ i + 3 <= Len(s) /\ s[i + 1] = "/" /\ s[i + 3] = "]"
            /\ open # <<>>
    THEN FromMarkup(s, i + 4,
                    [t EXCEPT !.spans =
                        Append(@, [start |-> open[Len(open)].start,
                                   end |-> Len(t.plain),
                                   style |-> open[Len(open)].style])],
                    SubSeq(open, 1, Len(open) - 1))
    ELSE IF s[i] = "[" /\ i + 2 <= Len(s) /\ s[i + 2] = "]"
    THEN FromMarkup(s, i + 3, t,
                    Append(open, [style |-> s[i + 1], start |-> Len(t.plain)]))
    ELSE FromMarkup(s, i + 1, [t EXCEPT !.plain = Append(@, s[i])], open)

\* _format_action_help(action) for the k-th action of the parser, with the
\* dynamic formatting on: the Text made of the help is handed to highlight()
FormatActionHelp(k) ==
    /\ calls < MaxCalls
    /\ config.dyn_format
    /\ k \in 1..Len(parser.actions)
    /\ parser.actions[k].help # SUPPRESS
    /\ Chars(parser.actions[k].help) # <<>>
    /\ \E t \in {FromMarkup(ActionHelpMarkup(parser.actions[k]), 1,
                            [plain |-> <<>>, spans |-> <<>>], <<>>)} :
         \E c \in {IF compiled.none THEN BuildRegex(parser, compiled)
                   ELSE compiled} :
            /\ compiled' = c
            /\ pre' = t
            /\ calls' = calls + 1
            /\ IF c.none
               THEN /\ UNCHANGED options
                    /\ text' = t
                    /\ mid' = t
                    /\ flagged' = FALSE
               ELSE \E o \in {IF options.none \/ DOMAIN options.index = {}
                              THEN CollectOptions(parser)
                              ELSE options} :
                      \E st \in {HighlightSteps12(t, custom_patterns, c, o.index)} :
                         /\ options' = o
                         /\ mid' = st.text
                         /\ flagged' = st.flag
                         /\ text' = HighlightStep3(st, config.preserve_backticks)
    /\ UNCHANGED <<config, custom_patterns, parser, fmtvars>>

\* NeonArgumentParser(prog="p") with an argument declared with a help text,
\* with or without default= and, for an option that takes a value, choices=
InitHelp ==
    /\ InitHighlighter
    /\ InitFormatter
    /\ InitNoText
    /\ config = DefaultConfig
    /\ custom_patterns = <<>>
    /\ \E help \in {"text", "see %(default)s", "of %(choices)s",
                    "%(default)s of %(choices)s"},
          default \in {Unset, "1", SUPPRESS},
          kind \in {"store", "store_true"} :
       \E choices \in IF kind = "store" THEN {<<>>, <<"1">>, <<"1", "2">>}
                       ELSE {<<>>} :
          parser = AddArgumentTo(
                       NewParser(<<"p">>, <<"-">>, TRUE, "options"), 2,
                       [Decl(<<<<"-", "a">>>>, <<>>, help, kind, "None", Unset,
                             default)
                        EXCEPT !.choices = choices]).parser

\* the help cell of one of the parser's actions is rendered
NextHelp == \E k \in 1..2 : FormatActionHelp(k)

SpecHelp == InitHelp /\ [][NextHelp]_vars

----------------------------------------------------------------------------
(* Properties of the help cell.                                             *)

\* the action a has a default that is set and is not the suppressed sentinel
C26_HasDefault(a) == a.default # "None" /\ a.default # SUPPRESS

\* s with every element old replaced by the characters new
C26_Replace(s, old, new) ==
    Flatten([k \in 1..Len(s) |-> IF s[k] = old THEN new ELSE <<s[k]>>])

\* the help text h with the default of a put in: in place of the placeholder,
\* or appended in parentheses when h has no placeholder
C26_WithDefault(h, a) ==
    IF ~C26_HasDefault(a) THEN h
    ELSE IF "%(default)s" \in CharSet(h)
    THEN C26_Replace(h, "%(default)s", Chars(a.default))
    ELSE h \o <<" ", "(", "d", "e", "f", "a", "u", "l", "t", ":", " ">>
           \o Chars(a.default) \o <<")">>

\* the help text h with the choices of a put in, joined by ", ": in place of
\* the placeholder, or appended in parentheses when h has no placeholder
C26_WithChoices(h, a) ==
    IF a.choices = <<>> THEN h
    ELSE IF "%(choices)s" \in CharSet(h)
    THEN C26_Replace(h, "%(choices)s",
                     Join(<<",", " ">>,
                          [k \in 1..Len(a.choices) |-> Chars(a.choices[k])]))
    ELSE h \o <<" ", "(", "c", "h", "o", "i", "c", "e", "s", ":", " ">>
           \o Join(<<",", " ">>,
                   [k \in 1..Len(a.choices) |-> Chars(a.choices[k])])
           \o <<")">>

\* C26: the text made of the help of an action reads as the help text with
\* the default put in, when the action has one that is not suppressed, and
\* then the choices put in, when the action has choices; it is the help text
\* itself when the action has neither.
C26_DefaultAndChoicesInHelp ==
    [][\A k \in 1..2 :
          FormatActionHelp(k) =>
             /\ pre'.plain = C26_WithChoices(
                                 C26_WithDefault(Chars(parser.actions[k].help),
                                                 parser.actions[k]),
                                 parser.actions[k])
             /\ (~C26_HasDefault(parser.actions[k])
                 /\ parser.actions[k].choices = <<>>) =>
                   pre'.plain = Chars(parser.actions[k].help)]_vars

\* the help cell of an option declared with help="%(default)s of
\* %(choices)s", default="1" and choices=["1", "2"] was rendered
C26_Witness ==
    /\ calls > 0
    /\ Len(parser.actions) = 2
    /\ parser.actions[2].help = "%(default)s of %(choices)s"
    /\ parser.actions[2].default = "1"
    /\ parser.actions[2].choices = <<"1", "2">>
    /\ pre.plain = <<"1", " ", "o", "f", " ", "1", ",", " ", "2">>

----------------------------------------------------------------------------
(* Groups and arguments that are added to a parser before and after its     *)
(* subcommands are attached.                                                *)

InitLate ==
    /\ InitHighlighter
    /\ InitFormatter
    /\ InitNoText
    /\ config = DefaultConfig
    /\ parser = NewParser(<<"p">>, <<"-">>, TRUE, "options")

\* add_argument_group("Global Options", inherit=...), add_argument("-v",
\* action="count") or add_argument("d") on a group of the parser,
\* add_subparsers(), add_parser("add")
NextLate ==
    \/ \E inherit \in BOOLEAN : AddArgumentGroup("Global Options", inherit)
    \/ \E d \in {Decl(<<<<"-", "v">>>>, <<>>, "text", "count", "None", Unset, Unset),
                 Decl(<<<<"d">>>>, <<>>, "text", "store", "None", Unset, Unset)},
          g \in 3..(2 + MaxGroups) : AddArgument(d, g)
    \/ AddSubparsers(FALSE)
    \/ AddParser(<<"a", "d", "d">>, <<"-">>)

SpecLate == InitLate /\ [][NextLate]_vars

\* the name an action goes by: its first option string, or its destination
C27_Name(a) == IF a.option_strings # <<>> THEN a.option_strings[1] ELSE a.dest

\* [title, names] of the groups of p marked inherit, each with the visible
\* actions that were added to p before its subparsers action was; a group
\* with no such action is left out
C27_Early(p) ==
    LET s == SubparsersActions(p)[1]
        early(group) == SelectSeq(group.actions,
                                  LAMBDA a : a.help # SUPPRESS /\ a.id < s.id)
        marked == SelectSeq(p.groups, LAMBDA group : group.inherit)
        infos == [k \in 1..Len(marked) |->
                     [title |-> marked[k].title,
                      names |-> [j \in 1..Len(early(marked[k])) |->
                                    C27_Name(early(marked[k])[j])]]]
    IN SelectSeq(infos, LAMBDA info : info.names # <<>>)

\* [title, names] of the groups of the subcommand parser sub that come after
\* its two default groups
C27_Inherited(sub) ==
    [g \in 1..(Len(sub.groups) - 2) |->
        [title |-> sub.groups[g + 2].title,
         names |-> [j \in 1..Len(sub.groups[g + 2].actions) |->
                       C27_Name(sub.groups[g + 2].actions[j])]]]

\* the subcommand parser "add" of p
C27_Add(p) ==
    LET s == SubparsersActions(p)[1]
        k == CHOOSE k \in 1..Len(s.subs) : s.subs[k].name = <<"a", "d", "d">>
    IN s.subs[k].parser

\* C27: once add_subparsers() was called, no later add_argument_group() or
\* add_argument() on the parent changes what the subcommands inherit, and a
\* subcommand parser made by add_parser() holds the inheritable groups with
\* the actions they had before add_subparsers() was called, and no group or
\* action added to the parent since.
C27_InheritanceFixedAtAddSubparsers ==
    [][/\ (SubparsersActions(parser) # <<>>
           /\ SubparsersActions(parser') # <<>>) =>
             SubparsersActions(parser')[1].inherited_groups =
                SubparsersActions(parser)[1].inherited_groups
       /\ AddParser(<<"a", "d", "d">>, <<"-">>) =>
             C27_Inherited(C27_Add(parser')) = C27_Early(parser)]_vars

\* the parent holds a group marked inherit with an action added before
\* add_subparsers() and one added after it, and the subcommand parser "add"
\* holds the first alone
C27_Witness ==
    /\ SubparsersActions(parser) # <<>>
    /\ SubparsersActions(parser)[1].subs # <<>>
    /\ \E g \in 1..Len(parser.groups) :
          /\ parser.groups[g].inherit
          /\ \E a, b \in CharSet(parser.groups[g].actions) :
                /\ a.help # SUPPRESS /\ b.help # SUPPRESS
                /\ a.id < SubparsersActions(parser)[1].id
                /\ b.id > SubparsersActions(parser)[1].id
                /\ C27_Inherited(C27_Add(parser)) =
                      <<[title |-> parser.groups[g].title,
                         names |-> <<C27_Name(a)>>]>>

\* the action b is equivalent to the action a: same option strings, or same
\* name for a positional, same kind, destination, metavar, default, choices
\* and required flag
C28_Equivalent(a, b) ==
    /\ b.option_strings = a.option_strings
    /\ b.kind = a.kind
    /\ b.dest = a.dest
    /\ b.metavar = a.metavar
    /\ b.default = a.default
    /\ b.choices = a.choices
    /\ b.required = a.required

\* C28: in every subcommand parser, every action of an inherited group is
\* equivalent to the action of the parent's group it was cloned from.
\* Stated for a parent whose prefix character is the dash.
C28_ClonesEquivalent ==
    parser.prefix_chars = <<"-">> =>
       \A s \in CharSet(SubparsersActions(parser)) :
          \A k \in 1..Len(s.subs) :
             \A i \in 1..Len(s.inherited_groups) :
                \A j \in 1..Len(s.subs[k].parser.groups[2 + i].actions) :
                   \A a \in C10_Marked(parser, s.inherited_groups[i].title) :
                      ActionInfo(a) = s.inherited_groups[i].actions[j] =>
                         C28_Equivalent(a, s.subs[k].parser.groups[2 + i].actions[j])

\* the titles, each once and in the order of the groups, of the groups of p
\* from the g-th on that hold a visible action, hold no subparsers action and
\* are not titled as one of the two default groups of p
RECURSIVE C29_Titles(_, _, _)
C29_Titles(p, g, seen) ==
    IF g > Len(p.groups) THEN <<>>
    ELSE IF /\ \E a \in CharSet(p.groups[g].actions) : a.help # SUPPRESS
            /\ \A a \in CharSet(p.groups[g].actions) : a.kind # "parsers"
            /\ p.groups[g].title \notin {"positional arguments", p.optionals_title}
            /\ p.groups[g].title \notin seen
    THEN <<p.groups[g].title>>
           \o C29_Titles(p, g + 1, seen \cup {p.groups[g].title})
    ELSE C29_Titles(p, g + 1, seen)

\* C29: the tables of argument groups in the document format_help() makes
\* are one per distinct title among the groups that hold a visible action,
\* hold no subparsers action and do not have a default title of the base
\* library, so that no title comes twice.
C29_OneTablePerTitle ==
    [][FormatHelp => C11_Titles(sections', "group") = C29_Titles(parser, 1, {})]_vars

----------------------------------------------------------------------------
(* The specification of the sentences: highlight() is called on words that  *)
(* single spaces separate, with a parser that has an option with a metavar  *)
(* and an option without.                                                   *)

\* The words are the two options, an option nobody declares, a plain word,
\* the program name, and a plain word, a declared option and an undeclared
\* one in backticks.
Words ==
    { <<"-", "a">>, <<"-", "b">>, <<"-", "z">>, <<"x">>, <<"p">>,
      <<BT, "x", BT>>, <<BT, "-", "a", BT>>, <<BT, "-", "z", BT>> }

InitSentence ==
    /\ InitHighlighter
    /\ InitFormatter
    /\ \E n \in 1..MaxTokens :
         \E ws \in [1..n -> Words] :
             /\ text = [plain |-> Join(<<" ">>, ws), spans |-> <<>>]
             /\ pre = text
             /\ mid = text
    /\ \E pb \in BOOLEAN : config = [DefaultConfig EXCEPT !.preserve_backticks = pb]
    /\ custom_patterns \in PatternChoices
    /\ parser = ParserWithGroup(<<"p">>, "Options",
                    << NewAction(1, <<<<"-", "a">>>>, <<"a">>, <<"M">>),
                       NewAction(2, <<<<"-", "b">>>>, <<"b">>, <<>>) >>)

SpecSentence == InitSentence /\ [][Next]_vars

\* the spans of the white-space-separated words of s from offset pos on
RECURSIVE C30_WordSpans(_, _)
C30_WordSpans(s, pos) ==
    IF pos >= Len(s) THEN <<>>
    ELSE IF IsSpace(s[pos + 1]) THEN C30_WordSpans(s, pos + 1)
    ELSE <<<<pos, RunEnd(s, pos, "nonspace")>>>>
            \o C30_WordSpans(s, RunEnd(s, pos, "nonspace"))

C30_Word(s, sp) == Slice(s, sp[1], sp[2])

\* the k-th word directly follows an option token that was not itself taken
\* as the follower of the option token before it
RECURSIVE C30_Consumed(_, _, _)
C30_Consumed(s, wsp, k) ==
    /\ k > 1
    /\ IsOptToken(C30_Word(s, wsp[k - 1]))
    /\ ~C30_Consumed(s, wsp, k - 1)

\* the word w is a backtick span the built-in step styles when it meets it:
\* its content is a key of the index or is not option-like
C30_StyledBacktickWord(w, index) ==
    /\ Len(w) >= 3 /\ w[1] = BT /\ w[Len(w)] = BT
    /\ ~HasBacktick(Slice(w, 1, Len(w) - 1))
    /\ \/ Slice(w, 1, Len(w) - 1) \in DOMAIN index
       \/ ~IsOptToken(Slice(w, 1, Len(w) - 1))

\* the spans of spans that overlap the span sp
C30_Over(spans, sp) ==
    {spans[k] : k \in {j \in 1..Len(spans) :
                          spans[j].end > sp[1] /\ spans[j].start < sp[2]}}

====
